---- MODULE Spec2Model ----
(***************************************************************************)
(* Graph engine, tool loop and plugin registry of the langchain-js        *)
(* example workflows.                                                      *)
(*                                                                         *)
(* The node bodies, router functions, graph topologies and the plugin      *)
(* registry are translated from the JavaScript sources.  The executor     *)
(* loop, the state reducer and the prebuilt tool node belong to the graph *)
(* library the sources import; they are modelled from the design document *)
(* (sections 4.2, 4.3 and 4.4).                                            *)
(***************************************************************************)
EXTENDS Integers, Sequences, FiniteSets, TLC

VARIABLES
    plugins,    \* PluginSystem.plugins: Map name -> {tool, description, enabled}
    toolNodes,  \* PluginSystem.toolNodes: Map name -> ToolNode([plugin])
    graph,      \* AgentWithPlugins.graph: the compiled graph, or not built yet
    analyzer,   \* the FileAnalyzer instance's fields
    run,        \* the RunContext of the invoke in flight
    probe,      \* the program running, or the inputs and result of a pure function
    checkpoints \* MemorySaver: Map thread_id -> the RunState saved for the thread

vars == <<plugins, toolNodes, graph, analyzer, run, probe, checkpoints>>

---------------------------------------------------------------------------
(* Bounds of the model *)

\* Node calls explored per run of the plugin agent's graph.
MaxCalls == 3
\* Node calls explored per run of the debate graph: above its recursion
\* limit, so that the limit is what ends a run.
MaxDebateCalls == 26
\* Capability failures (model or tool call) explored per run.
MaxFailures == 1
\* Messages a thread's saved state may hold for another invoke to start.
MaxHistory == 4
\* Model nodes in the chain of the chatbot app.
MaxChain == 2
\* Node calls explored per run of the multi-agent graph while the models'
\* replies are chosen freely at every call.
MaxOrchestratorCalls == 5

(* Program constants *)

PluginRecursionLimit == 100
DefaultRecursionLimit == 25
TurnThreshold == 10
DebateTurnLimit == 8

START == "__start__"
END == "__end__"

---------------------------------------------------------------------------
(* Messages.  content is a sequence of tokens; String.includes(t) is      *)
(* membership of token t.  calls is the ordered tool_calls list (the id   *)
(* of a call is its position); callId is the tool_call_id of a tool       *)
(* message, 0 on every other message.                                     *)

Msg(role, content, calls, callId) ==
    [role |-> role, content |-> content, calls |-> calls, callId |-> callId]

HumanMessage(content) == Msg("human", content, <<>>, 0)
SystemMessage(content) == Msg("system", content, <<>>, 0)
AIMessage(content) == Msg("assistant", content, <<>>, 0)
AIToolCalls(calls) == Msg("assistant", <<>>, calls, 0)
ToolMessage(content, callId) == Msg("tool", content, <<>>, callId)

IsAIMessage(m) == m.role = "assistant"
IsSystemMessage(m) == m.role = "system"
IsHumanMessage(m) == m.role = "human"
IsToolMessage(m) == m.role = "tool"

Includes(content, token) == \E i \in 1..Len(content) : content[i] = token

Last(s) == s[Len(s)]

RECURSIVE CountAI(_)
CountAI(msgs) ==
    IF msgs = <<>> THEN 0
    ELSE (IF IsAIMessage(Head(msgs)) THEN 1 ELSE 0) + CountAI(Tail(msgs))

IsPrefix(s, t) == Len(s) <= Len(t) /\ SubSeq(t, 1, Len(s)) = s

---------------------------------------------------------------------------
(* JavaScript Map: a sequence of entries in insertion order.  set() of an *)
(* existing key keeps its position.                                       *)

MapHas(m, k) == \E i \in 1..Len(m) : m[i].k = k
MapIndex(m, k) == CHOOSE i \in 1..Len(m) : m[i].k = k
MapGet(m, k) == m[MapIndex(m, k)].v
\* a Map whose set() moves an existing key to the end
MapSetMoveToEnd(m, k, v) ==
    Append(SelectSeq(m, LAMBDA e : e.k # k), [k |-> k, v |-> v])
MapSet(m, k, v) ==
    IF MapHas(m, k)
    THEN [i \in 1..Len(m) |-> IF m[i].k = k THEN [k |-> k, v |-> v] ELSE m[i]]
    ELSE Append(m, [k |-> k, v |-> v])
MapDelete(m, k) == SelectSeq(m, LAMBDA e : e.k # k)
MapKeys(m) == [i \in 1..Len(m) |-> m[i].k]
KeySet(m) == {m[i].k : i \in 1..Len(m)}
SeqToSet(s) == {s[i] : i \in 1..Len(s)}

---------------------------------------------------------------------------
(* PluginSystem *)

PluginNames == {"translate", "weather"}
\* The tool object registered under each plugin name in main() and
\* createExamplePlugins(): a tool is identified by its own name.
ToolOf(name) == IF name = "weather" THEN "get_weather" ELSE name
DescOf(name) ==
    IF name = "weather" THEN "Get weather information for a location"
    ELSE "Translate text between languages"

\* new ToolNode([plugin])
ToolNode(tools) == [tools |-> tools]

PluginInfo(plugin, description, enabled) ==
    [tool |-> plugin, description |-> description, enabled |-> enabled]

\* a registration that rebuilds the compiled graph in place
registerPluginRewiring(name, plugin, description) ==
    /\ plugins' = MapSet(plugins, name, PluginInfo(plugin, description, TRUE))
    /\ toolNodes' = MapSet(toolNodes, name, ToolNode(<<plugin>>))
    /\ graph' = IF graph.built
                THEN [graph EXCEPT !.nodes =
                         MapSet(graph.nodes, name, [fn |-> "ToolNode", tools |-> <<plugin>>])]
                ELSE graph
    /\ UNCHANGED <<analyzer, run, probe, checkpoints>>

\* a registration that moves a name already registered to the end
registerPluginMoveToEnd(name, plugin, description) ==
    /\ plugins' = MapSetMoveToEnd(plugins, name, PluginInfo(plugin, description, TRUE))
    /\ toolNodes' = MapSetMoveToEnd(toolNodes, name, ToolNode(<<plugin>>))
    /\ UNCHANGED <<graph, analyzer, run, probe, checkpoints>>

\* a registration that stores the plugin without deriving its tool node
registerPluginHalf(name, plugin, description) ==
    /\ plugins' = MapSet(plugins, name, PluginInfo(plugin, description, TRUE))
    /\ UNCHANGED <<toolNodes, graph, analyzer, run, probe, checkpoints>>

registerPlugin(name, plugin, description) ==
    /\ plugins' = MapSet(plugins, name, PluginInfo(plugin, description, TRUE))
    /\ toolNodes' = MapSet(toolNodes, name, ToolNode(<<plugin>>))
    /\ UNCHANGED <<graph, analyzer, run, probe, checkpoints>>

\* the value unregisterPlugin(name) returns, called on registry ps
unregisterPluginResult(ps, name) == IF ~MapHas(ps, name) THEN FALSE ELSE TRUE

\* an unregistration that removes the tool node and keeps the plugin
unregisterPluginNodeOnly(name) ==
    /\ IF ~MapHas(plugins, name)
       THEN UNCHANGED toolNodes
       ELSE toolNodes' = MapDelete(toolNodes, name)
    /\ UNCHANGED <<plugins, graph, analyzer, run, probe, checkpoints>>

\* an unregistration that removes the plugin and keeps its tool node
unregisterPluginKeepNode(name) ==
    /\ IF ~MapHas(plugins, name)
       THEN UNCHANGED plugins
       ELSE plugins' = MapDelete(plugins, name)
    /\ UNCHANGED <<toolNodes, graph, analyzer, run, probe, checkpoints>>

unregisterPlugin(name) ==
    /\ IF ~MapHas(plugins, name)
       THEN UNCHANGED <<plugins, toolNodes>>
       ELSE /\ plugins' = MapDelete(plugins, name)
            /\ toolNodes' = MapDelete(toolNodes, name)
    /\ UNCHANGED <<graph, analyzer, run, probe, checkpoints>>

\* the value setPluginEnabled(name, enabled) returns, called on registry ps
setPluginEnabledResult(ps, name) == IF ~MapHas(ps, name) THEN FALSE ELSE TRUE

\* a setter that creates an entry for an unknown name
setPluginEnabledUpsert(name, enabled) ==
    /\ plugins' = MapSet(plugins, name,
                         IF MapHas(plugins, name)
                         THEN [MapGet(plugins, name) EXCEPT !.enabled = enabled]
                         ELSE PluginInfo(name, "", enabled))
    /\ UNCHANGED <<toolNodes, graph, analyzer, run, probe, checkpoints>>

setPluginEnabled(name, enabled) ==
    /\ IF ~MapHas(plugins, name)
       THEN UNCHANGED plugins
       ELSE plugins' = MapSet(plugins, name,
                              [MapGet(plugins, name) EXCEPT !.enabled = enabled])
    /\ UNCHANGED <<toolNodes, graph, analyzer, run, probe, checkpoints>>

\* a listing that ignores the enabled flag
getEnabledPluginsAll(ps) ==
    [i \in 1..Len(ps) |->
        [name |-> ps[i].k, tool |-> ps[i].v.tool,
         description |-> ps[i].v.description]]

getEnabledPlugins(ps) ==
    LET on == SelectSeq(ps, LAMBDA e : e.v.enabled)
    IN  [i \in 1..Len(on) |->
            [name |-> on[i].k, tool |-> on[i].v.tool,
             description |-> on[i].v.description]]

getEnabledTools(ps) ==
    LET on == getEnabledPlugins(ps) IN [i \in 1..Len(on) |-> on[i].tool]

\* a derivation that returns every tool node, enabled or not
getEnabledToolNodesAll(ps, tns) == tns

\* plugins.get(name)?.enabled is falsy when the plugin is missing
getEnabledToolNodes(ps, tns) ==
    SelectSeq(tns, LAMBDA e : MapHas(ps, e.k) /\ MapGet(ps, e.k).enabled)

---------------------------------------------------------------------------
(* AgentWithPlugins: system prompt *)

Placeholder == "{tool_descriptions}"

getDefaultSystemPrompt ==
    <<"You have access to the following tools:", Placeholder,
      "Always use tools when they can help.">>

RECURSIVE JoinLines(_)
JoinLines(lines) ==
    IF lines = <<>> THEN <<>>
    ELSE IF Len(lines) = 1 THEN Head(lines)
    ELSE Head(lines) \o <<"\n">> \o JoinLines(Tail(lines))

\* a description text with a line for every registered plugin
buildToolDescriptionsAll(ps) ==
    JoinLines([i \in 1..Len(ps) |->
                  <<"- ", ps[i].k, ": ", ps[i].v.description>>])

buildToolDescriptions(ps) ==
    LET on == getEnabledPlugins(ps)
    IN  JoinLines([i \in 1..Len(on) |->
                      <<"- ", on[i].name, ": ", on[i].description>>])

\* String.replace with a string pattern replaces the first occurrence only
ReplaceFirst(text, token, repl) ==
    IF ~Includes(text, token) THEN text
    ELSE LET i == CHOOSE j \in 1..Len(text) :
                      /\ text[j] = token
                      /\ \A h \in 1..(j - 1) : text[h] # token
         IN  SubSeq(text, 1, i - 1) \o repl \o SubSeq(text, i + 1, Len(text))

getUpdatedSystemPrompt(ps) ==
    ReplaceFirst(getDefaultSystemPrompt, Placeholder, buildToolDescriptions(ps))

---------------------------------------------------------------------------
(* Compiled graphs.  nodes is the node table (a Map name -> node body),   *)
(* edges the unconditional edges <<source, target>>, branches the         *)
(* conditional edges with their router and target map (pairs <<key,       *)
(* target>>), limit the recursion limit.                                  *)

NodeBody(fn, tools) == [fn |-> fn, tools |-> tools]

Branch(src, route, ends) == [src |-> src, route |-> route, ends |-> ends]

CompiledGraph(name, nodes, edges, branches, limit) ==
    [built |-> TRUE, name |-> name, nodes |-> nodes, edges |-> edges,
     branches |-> branches, limit |-> limit]

(* Graph Definition (Builder): the node table under construction and the  *)
(* error that ended the construction, "none" while there is none.         *)
Builder(nodes, err) == [nodes |-> nodes, err |-> err]

\* new StateGraph(MessagesAnnotation)
NewBuilder == Builder(<<>>, "none")

\* a builder whose addNode replaces the node registered under the name
addNodeOverwrite(b, name, body) ==
    Builder(MapSet(b.nodes, name, body), b.err)

\* addNode(name, fn)
addNode(b, name, body) ==
    IF MapHas(b.nodes, name)
    THEN Builder(b.nodes, "DuplicateNodeError")
    ELSE Builder(Append(b.nodes, [k |-> name, v |-> body]), b.err)

\* this.graph = null
NoGraph ==
    [built |-> FALSE, name |-> "none", nodes |-> <<>>, edges |-> {},
     branches |-> {}, limit |-> 0]

\* AgentWithPlugins.buildGraph
buildGraph(ps, tns) ==
    LET enabledNodes == getEnabledToolNodes(ps, tns)
        names == KeySet(enabledNodes)
        nodes == <<[k |-> "agent", v |-> NodeBody("agentNode", <<>>)]>>
                 \o [i \in 1..Len(enabledNodes) |->
                        [k |-> enabledNodes[i].k,
                         v |-> NodeBody("ToolNode", enabledNodes[i].v.tools)]]
    IN  CompiledGraph("plugin", nodes,
            {<<START, "agent">>} \cup {<<n, "agent">> : n \in names},
            {Branch("agent", "routeFromAgent",
                    {<<END, END>>} \cup {<<n, n>> : n \in names})},
            PluginRecursionLimit)

\* debateGraph / debateTeam
ROLES == [MODERATOR |-> "moderator", CRITIC |-> "critic", CREATIVE |-> "creative",
          PRAGMATIC |-> "pragmatic", SUMMARIZER |-> "summarizer"]

debateGraph ==
    CompiledGraph("debate",
        <<[k |-> ROLES.MODERATOR, v |-> NodeBody("createAgentNode", <<>>)],
          [k |-> ROLES.CRITIC, v |-> NodeBody("createAgentNode", <<>>)],
          [k |-> ROLES.CREATIVE, v |-> NodeBody("createAgentNode", <<>>)],
          [k |-> ROLES.PRAGMATIC, v |-> NodeBody("createAgentNode", <<>>)],
          [k |-> ROLES.SUMMARIZER, v |-> NodeBody("createAgentNode", <<>>)]>>,
        {<<START, ROLES.MODERATOR>>},
        {Branch(ROLES.MODERATOR, "moderatorRoute",
                {<<ROLES.CREATIVE, ROLES.CREATIVE>>,
                 <<ROLES.SUMMARIZER, ROLES.SUMMARIZER>>}),
         Branch(ROLES.CREATIVE, "creativeRoute",
                {<<ROLES.PRAGMATIC, ROLES.PRAGMATIC>>}),
         Branch(ROLES.PRAGMATIC, "pragmaticRoute",
                {<<ROLES.CRITIC, ROLES.CRITIC>>}),
         Branch(ROLES.CRITIC, "criticRoute",
                {<<ROLES.MODERATOR, ROLES.MODERATOR>>}),
         Branch(ROLES.SUMMARIZER, "summarizerRoute",
                {<<ROLES.MODERATOR, ROLES.MODERATOR>>, <<"end", END>>})},
        DefaultRecursionLimit)

\* FileAnalyzer.createStateGraph
ANALYZER_STATES ==
    [INITIALIZE |-> "initialize", UNDERSTAND |-> "understand",
     GENERATE_INSIGHTS |-> "generate_insights",
     ANSWER_QUESTIONS |-> "answer_questions", DONE |-> "done"]

fileAnalyzerGraph ==
    CompiledGraph("fileAnalyzer",
        <<[k |-> ANALYZER_STATES.INITIALIZE, v |-> NodeBody("initializeAnalysis", <<>>)],
          [k |-> ANALYZER_STATES.UNDERSTAND, v |-> NodeBody("understandContent", <<>>)],
          [k |-> ANALYZER_STATES.GENERATE_INSIGHTS, v |-> NodeBody("generateInsights", <<>>)],
          [k |-> ANALYZER_STATES.ANSWER_QUESTIONS, v |-> NodeBody("answerQuestions", <<>>)]>>,
        {<<START, ANALYZER_STATES.INITIALIZE>>,
         <<ANALYZER_STATES.UNDERSTAND, ANALYZER_STATES.GENERATE_INSIGHTS>>,
         <<ANALYZER_STATES.GENERATE_INSIGHTS, ANALYZER_STATES.ANSWER_QUESTIONS>>,
         <<ANALYZER_STATES.ANSWER_QUESTIONS, END>>},
        {Branch(ANALYZER_STATES.INITIALIZE, "routeAfterInitialize",
                {<<ANALYZER_STATES.UNDERSTAND, ANALYZER_STATES.UNDERSTAND>>,
                 <<ANALYZER_STATES.DONE, END>>})},
        DefaultRecursionLimit)

\* RagMemoryChatbot.createStateGraph
ragGraph ==
    CompiledGraph("rag",
        <<[k |-> "retriever", v |-> NodeBody("retrieveDocuments", <<>>)],
          [k |-> "formatter", v |-> NodeBody("formatDocuments", <<>>)],
          [k |-> "generator", v |-> NodeBody("generateResponse", <<>>)]>>,
        {<<START, "retriever">>, <<"retriever", "formatter">>,
         <<"formatter", "generator">>, <<"generator", END>>},
        {},
        DefaultRecursionLimit)

\* The chatbot app: new StateGraph(Schema).addNode("model", callModel)
\* .addEdge(START, "model").addEdge("model", END), and its extension to a
\* chain start -> n1 -> ... -> nk -> terminal of such nodes.
ChainNodes == <<"model", "model2", "model3">>

linearGraph(k, limit) ==
    CompiledGraph("chat",
        [i \in 1..k |-> [k |-> ChainNodes[i], v |-> NodeBody("callModel", <<>>)]],
        {<<START, ChainNodes[1]>>, <<ChainNodes[k], END>>}
            \cup {<<ChainNodes[i], ChainNodes[i + 1]>> : i \in 1..(k - 1)},
        {},
        limit)

\* the multi-agent system: workflow ... compile()
AGENT_TYPES ==
    [RESEARCHER |-> "researcher", CALCULATOR |-> "calculator",
     COORDINATOR |-> "coordinator"]

orchestratorGraph ==
    CompiledGraph("orchestrator",
        <<[k |-> "coordinator", v |-> NodeBody("callCoordinatorAgent", <<>>)],
          [k |-> "researcher", v |-> NodeBody("callResearcherAgent", <<>>)],
          [k |-> "calculator", v |-> NodeBody("callCalculatorAgent", <<>>)],
          [k |-> "researchTools", v |-> NodeBody("ToolNode", <<"tavily_search">>)],
          [k |-> "calculatorTools", v |-> NodeBody("ToolNode", <<"calculator">>)]>>,
        {<<START, "coordinator">>, <<"researchTools", "researcher">>,
         <<"calculatorTools", "calculator">>},
        {Branch("coordinator", "shouldContinue",
                {<<"researcher", "researcher">>, <<"calculator", "calculator">>,
                 <<"end", END>>, <<"coordinator", "coordinator">>}),
         Branch("researcher", "researcherRoute",
                {<<"researchTools", "researchTools">>,
                 <<"coordinator", "coordinator">>}),
         Branch("calculator", "calculatorRoute",
                {<<"calculatorTools", "calculatorTools">>,
                 <<"coordinator", "coordinator">>})},
        DefaultRecursionLimit)

EntryOf(g) == CHOOSE t \in {e[2] : e \in {d \in g.edges : d[1] = START}} : TRUE

---------------------------------------------------------------------------
(* Outcome of the capability call (model inference or tool execution) a   *)
(* node body makes: it fails, or it answers with tool calls and a marker  *)
(* token in its text.                                                     *)

Outcome(ok, calls, token) == [ok |-> ok, calls |-> calls, token |-> token]
Failed == Outcome(FALSE, <<>>, "error")

\* tool-call names the model may emit during a run: the registry names
\* shown in the system prompt and a name that is never registered
CallNames == {"translate", "weather", "ghost"}
MultiCalls == {<<"translate", "weather">>}

AgentOutcomes ==
    {Outcome(TRUE, <<>>, "text")}
    \cup {Outcome(TRUE, <<n>>, "text") : n \in CallNames}
    \cup {Outcome(TRUE, c, "text") : c \in MultiCalls}

DebateOutcomes(agentName) ==
    IF agentName = ROLES.MODERATOR
    THEN {Outcome(TRUE, <<>>, "text"), Outcome(TRUE, <<>>, "CONCLUDE_DEBATE")}
    ELSE IF agentName = ROLES.SUMMARIZER
    THEN {Outcome(TRUE, <<>>, "text"), Outcome(TRUE, <<>>, "FINAL_ANSWER:")}
    ELSE {Outcome(TRUE, <<>>, "text")}

\* the file read of initializeAnalysis: the content, an empty file, or an error
FileOutcomes == {Outcome(TRUE, <<>>, "content"), Outcome(TRUE, <<>>, "empty")}
\* the similarity search of retrieveDocuments: some documents, or none
SearchOutcomes == {Outcome(TRUE, <<>>, "docs"), Outcome(TRUE, <<>>, "none")}

\* the chat model's answer: some text, or the user's words said back
ChatOutcomes == {Outcome(TRUE, <<>>, "text"), Outcome(TRUE, <<>>, "You said: hi")}

(* The replies of the multi-agent system's models.  The coordinator is    *)
(* asked for RESEARCHER, CALCULATOR or FINAL_ANSWER:...; a model may also *)
(* name the specialist in lower case.  A specialist answers in text or   *)
(* asks for its tool.  probe.script says whether the replies are chosen   *)
(* freely at every call, or are the same at every call of the run.        *)
CoordinatorReplies ==
    {"RESEARCHER", "CALCULATOR", "FINAL_ANSWER:", "researcher", "calculator"}

Script(free, reply, tools) == [free |-> free, reply |-> reply, tools |-> tools]
FreeReplies == Script(TRUE, "none", FALSE)

CoordinatorOutcomes ==
    IF probe.script.free
    THEN {Outcome(TRUE, <<>>, t) : t \in CoordinatorReplies}
    ELSE {Outcome(TRUE, <<>>, probe.script.reply)}

SpecialistOutcomes(tool) ==
    IF probe.script.free
    THEN {Outcome(TRUE, <<>>, "text"), Outcome(TRUE, <<tool>>, "text")}
    ELSE {Outcome(TRUE, IF probe.script.tools THEN <<tool>> ELSE <<>>, "text")}

\* node bodies that make no capability call
Pure == {"answerQuestions", "formatDocuments"}

Outcomes(body, name) ==
    (IF body.fn \in Pure THEN {} ELSE {Failed}) \cup
    (CASE body.fn = "agentNode" -> AgentOutcomes
       [] body.fn = "createAgentNode" -> DebateOutcomes(name)
       [] body.fn = "initializeAnalysis" -> FileOutcomes
       [] body.fn = "retrieveDocuments" -> SearchOutcomes
       [] body.fn = "callModel" -> ChatOutcomes
       [] body.fn = "callCoordinatorAgent" -> CoordinatorOutcomes
       [] body.fn = "callResearcherAgent" -> SpecialistOutcomes("tavily_search")
       [] body.fn = "callCalculatorAgent" -> SpecialistOutcomes("calculator")
       [] body.fn = "ToolNode" -> {Outcome(TRUE, <<>>, "result")}
       [] OTHER -> {Outcome(TRUE, <<>>, "text")})

---------------------------------------------------------------------------
(* Node bodies: RunState -> PartialRunState, or a thrown failure.  an is  *)
(* the FileAnalyzer instance as the body leaves it.                       *)

(* failed: a capability call of the body failed, whether the body caught  *)
(* the failure (Caught) or let it escape (Threw).                         *)
Returned(partial, an) ==
    [threw |-> FALSE, failed |-> FALSE, partial |-> partial, an |-> an]
Caught(partial, an) ==
    [threw |-> FALSE, failed |-> TRUE, partial |-> partial, an |-> an]
Threw(an) ==
    [threw |-> TRUE, failed |-> TRUE, partial |-> [messages |-> <<>>], an |-> an]

FallbackMessage ==
    AIMessage(<<"I encountered an error while processing your request.">>)

\* an agent node whose catch returns the messages without a fallback message
agentNodeSilent(state, ps, an, o) ==
    LET messages ==
            IF ~(\E i \in 1..Len(state.messages) : IsSystemMessage(state.messages[i]))
            THEN <<SystemMessage(getUpdatedSystemPrompt(ps))>> \o state.messages
            ELSE state.messages
        response == IF o.calls = <<>> THEN AIMessage(<<o.token>>)
                    ELSE AIToolCalls(o.calls)
    IN  IF o.ok
        THEN Returned([messages |-> Append(messages, response)], an)
        ELSE Caught([messages |-> messages], an)

\* AgentWithPlugins.agentNode
agentNode(state, ps, an, o) ==
    LET messages ==
            IF ~(\E i \in 1..Len(state.messages) : IsSystemMessage(state.messages[i]))
            THEN <<SystemMessage(getUpdatedSystemPrompt(ps))>> \o state.messages
            ELSE state.messages
        response == IF o.calls = <<>> THEN AIMessage(<<o.token>>)
                    ELSE AIToolCalls(o.calls)
    IN  IF o.ok
        THEN Returned([messages |-> Append(messages, response)], an)
        ELSE Caught([messages |-> Append(messages, FallbackMessage)], an)

Upper(agentName) ==
    CASE agentName = "moderator" -> "MODERATOR: "
      [] agentName = "critic" -> "CRITIC: "
      [] agentName = "creative" -> "CREATIVE: "
      [] agentName = "pragmatic" -> "PRAGMATIC: "
      [] OTHER -> "SUMMARIZER: "

\* a debate node that returns the message it answers along with its own
createAgentNodeEcho(agentName, state, an, o) ==
    IF o.ok
    THEN Returned([messages |-> <<Last(state.messages),
                                  AIMessage(<<Upper(agentName), o.token>>)>>], an)
    ELSE Threw(an)

\* createAgentNode(agentName): the returned node function
createAgentNode(agentName, state, an, o) ==
    IF o.ok
    THEN Returned([messages |-> <<AIMessage(<<Upper(agentName), o.token>>)>>], an)
    ELSE Threw(an)

\* The prebuilt tool node: executes the requested call and answers it
\* with one tool-role message correlated by the call's id.
toolNode(tools, state, an, o) ==
    IF o.ok
    THEN Returned([messages |-> <<ToolMessage(<<"result">>, 1)>>], an)
    ELSE Threw(an)

\* FileAnalyzer constructor: the instance fields
NewAnalyzer ==
    [filePath |-> "null", fileContent |-> "null", chunks |-> <<>>,
     summary |-> "null", insights |-> "null"]

Paths == {"notes.md", "app.js", "README"}
HasExtension(path) == path # "README"

\* FileAnalyzer.extractFilePath: the path named in the text, or "null"
extractFilePath(content) ==
    IF \E i \in 1..Len(content) : content[i] \in Paths /\ HasExtension(content[i])
    THEN content[CHOOSE i \in 1..Len(content) :
                    content[i] \in Paths /\ HasExtension(content[i])]
    ELSE "null"

\* FileAnalyzer.initializeAnalysis
initializeAnalysis(state, an, o) ==
    LET messages == state.messages
        humans == {i \in 1..Len(messages) : IsHumanMessage(messages[i])}
        userMessage == messages[CHOOSE i \in humans : \A j \in humans : j <= i]
        filePath == extractFilePath(userMessage.content)
    IN  IF humans = {}
        THEN Returned([messages |-> <<AIMessage(
                 <<"No file path provided", ". Please provide a valid file path to analyze.">>)>>], an)
        ELSE IF filePath = "null"
        THEN Returned([messages |-> <<AIMessage(
                 <<"Could not identify", " a file path in your message.">>)>>], an)
        ELSE IF ~o.ok
        THEN Caught([messages |-> Append(messages, AIMessage(
                 <<"Error loading", " the file: ", "ENOENT">>))],
                 [an EXCEPT !.filePath = filePath])
        ELSE IF o.token = "content"
        THEN Returned([messages |-> Append(messages, AIMessage(
                 <<"I've loaded ", filePath, " successfully.">>))],
                 [an EXCEPT !.filePath = filePath, !.fileContent = "text",
                            !.chunks = <<"chunk">>])
        ELSE Returned([messages |-> Append(messages, AIMessage(
                 <<"The file ", filePath, "appears to be empty", ".">>))],
                 [an EXCEPT !.filePath = filePath, !.fileContent = ""])

\* FileAnalyzer.understandContent
understandContent(state, an, o) ==
    IF o.ok
    THEN Returned([messages |-> Append(state.messages, AIMessage(
             <<"I've analyzed the file. Here's a summary:", o.token>>))],
             [an EXCEPT !.summary = o.token])
    ELSE Threw(an)

\* FileAnalyzer.generateInsights
generateInsights(state, an, o) ==
    IF o.ok
    THEN Returned([messages |-> Append(state.messages, AIMessage(
             <<"Based on my analysis, here are some key insights:", o.token>>))],
             [an EXCEPT !.insights = o.token])
    ELSE Threw(an)

\* FileAnalyzer.answerQuestions
answerQuestions(state, an, o) ==
    Returned([messages |-> Append(state.messages, AIMessage(
        <<"I've completed my analysis of ", an.filePath, "## Summary",
          an.summary, "## Key Insights", an.insights>>))], an)

\* RagMemoryChatbot.retrieveDocuments
retrieveDocuments(state, an, o) ==
    IF ~(\E i \in 1..Len(state.messages) : IsHumanMessage(state.messages[i]))
    THEN Returned([documents |-> <<>>], an)
    ELSE IF o.ok
    THEN Returned([documents |-> IF o.token = "docs" THEN <<"doc">> ELSE <<>>], an)
    ELSE Threw(an)

\* RagMemoryChatbot.formatDocuments
formatDocuments(state, an, o) ==
    IF "documents" \notin DOMAIN state \/ state.documents = <<>>
    THEN Returned([context |-> <<"No relevant information found.">>], an)
    ELSE Returned([context |-> <<"Relevant information from knowledge base:">>
                                   \o state.documents,
                   messages |-> state.messages], an)

\* RagMemoryChatbot.generateResponse
generateResponse(state, an, o) ==
    IF o.ok
    THEN Returned([messages |-> <<AIMessage(<<o.token>>)>>], an)
    ELSE Threw(an)

\* a model node that returns the accumulated list with its response
callModelFull(state, an, o) ==
    IF o.ok
    THEN Returned([messages |-> Append(state.messages, AIMessage(<<o.token>>))], an)
    ELSE Threw(an)

\* a model node that also writes the language channel
callModelResetLanguage(state, an, o) ==
    IF o.ok
    THEN Returned([messages |-> <<AIMessage(<<o.token>>)>>, language |-> "English"], an)
    ELSE Threw(an)

\* callModel: return { messages: [response] }
callModel(state, an, o) ==
    IF o.ok
    THEN Returned([messages |-> <<AIMessage(<<o.token>>)>>], an)
    ELSE Threw(an)

\* callCoordinatorAgent: the coordinator model has no tools bound
callCoordinatorAgent(state, an, o) ==
    IF o.ok
    THEN Returned([messages |-> <<AIMessage(<<o.token>>)>>], an)
    ELSE Threw(an)

\* callResearcherAgent
callResearcherAgent(state, an, o) ==
    IF o.ok
    THEN Returned([messages |-> <<IF o.calls = <<>> THEN AIMessage(<<o.token>>)
                                  ELSE AIToolCalls(o.calls)>>], an)
    ELSE Threw(an)

\* callCalculatorAgent
callCalculatorAgent(state, an, o) ==
    IF o.ok
    THEN Returned([messages |-> <<IF o.calls = <<>> THEN AIMessage(<<o.token>>)
                                  ELSE AIToolCalls(o.calls)>>], an)
    ELSE Threw(an)

\* dispatch on the function a node was registered with
InvokeNode(name, body, state, ps, an, o) ==
    CASE body.fn = "agentNode" -> agentNode(state, ps, an, o)
      [] body.fn = "createAgentNode" -> createAgentNode(name, state, an, o)
      [] body.fn = "initializeAnalysis" -> initializeAnalysis(state, an, o)
      [] body.fn = "understandContent" -> understandContent(state, an, o)
      [] body.fn = "generateInsights" -> generateInsights(state, an, o)
      [] body.fn = "answerQuestions" -> answerQuestions(state, an, o)
      [] body.fn = "retrieveDocuments" -> retrieveDocuments(state, an, o)
      [] body.fn = "formatDocuments" -> formatDocuments(state, an, o)
      [] body.fn = "generateResponse" -> generateResponse(state, an, o)
      [] body.fn = "callModel" -> callModel(state, an, o)
      [] body.fn = "callCoordinatorAgent" -> callCoordinatorAgent(state, an, o)
      [] body.fn = "callResearcherAgent" -> callResearcherAgent(state, an, o)
      [] body.fn = "callCalculatorAgent" -> callCalculatorAgent(state, an, o)
      [] OTHER -> toolNode(body.tools, state, an, o)

---------------------------------------------------------------------------
(* Router functions: RunState -> key *)

\* a router that returns the requested name without consulting the registry
routeFromAgentUnchecked(messages, ps) ==
    LET lastMessage == Last(messages)
    IN  IF IsAIMessage(lastMessage) /\ Len(lastMessage.calls) > 0
        THEN lastMessage.calls[1]
        ELSE END

\* AgentWithPlugins.routeFromAgent
routeFromAgent(messages, ps) ==
    LET lastMessage == Last(messages)
        enabled == getEnabledPlugins(ps)
        responseCount == CountAI(messages)
    IN  IF /\ IsAIMessage(lastMessage)
           /\ Len(lastMessage.calls) > 0
           /\ \E i \in 1..Len(enabled) : enabled[i].name = lastMessage.calls[1]
        THEN lastMessage.calls[1]
        ELSE IF responseCount > TurnThreshold THEN END
        ELSE END

\* a moderator router without the count of debate turns
moderatorRouteNoTurnLimit(messages) ==
    IF Includes(Last(messages).content, "CONCLUDE_DEBATE") THEN "summarizer"
    ELSE "creative"

\* moderatorRoute
moderatorRoute(messages) ==
    LET lastMessage == Last(messages)
        debateTurns == CountAI(messages)
    IN  IF Includes(lastMessage.content, "CONCLUDE_DEBATE") THEN "summarizer"
        ELSE IF debateTurns >= DebateTurnLimit THEN "summarizer"
        ELSE "creative"

creativeRoute == "pragmatic"
pragmaticRoute == "critic"
criticRoute == "moderator"

\* a summarizer router that returns the terminal marker itself
summarizerRouteTerminal(messages) ==
    IF Includes(Last(messages).content, "FINAL_ANSWER:") THEN END
    ELSE "moderator"

\* summarizerRoute
summarizerRoute(messages) ==
    IF Includes(Last(messages).content, "FINAL_ANSWER:") THEN "end"
    ELSE "moderator"

\* FileAnalyzer.routeAfterInitialize
routeAfterInitialize(messages) ==
    LET lastMessage == Last(messages)
    IN  IF \/ Includes(lastMessage.content, "Error loading")
           \/ Includes(lastMessage.content, "Could not identify")
           \/ Includes(lastMessage.content, "appears to be empty")
        THEN ANALYZER_STATES.DONE
        ELSE ANALYZER_STATES.UNDERSTAND

\* a coordinator router that ends the run when it cannot tell what to do
shouldContinueDefaultEnd(messages) ==
    LET lastMessage == Last(messages)
    IN  IF IsAIMessage(lastMessage)
        THEN IF Includes(lastMessage.content, "FINAL_ANSWER:") THEN "end"
             ELSE IF Includes(lastMessage.content, AGENT_TYPES.RESEARCHER)
             THEN "researcher"
             ELSE IF Includes(lastMessage.content, AGENT_TYPES.CALCULATOR)
             THEN "calculator"
             ELSE "end"
        ELSE "end"

\* shouldContinue
shouldContinue(messages) ==
    LET lastMessage == Last(messages)
    IN  IF IsAIMessage(lastMessage)
        THEN IF Includes(lastMessage.content, "FINAL_ANSWER:") THEN "end"
             ELSE IF Includes(lastMessage.content, AGENT_TYPES.RESEARCHER)
             THEN "researcher"
             ELSE IF Includes(lastMessage.content, AGENT_TYPES.CALCULATOR)
             THEN "calculator"
             ELSE "coordinator"
        ELSE "coordinator"

\* the router of the researcher's conditional edge
researcherRoute(messages) ==
    LET lastMessage == Last(messages)
    IN  IF IsAIMessage(lastMessage) /\ Len(lastMessage.calls) > 0
        THEN "researchTools"
        ELSE "coordinator"

\* the router of the calculator's conditional edge
calculatorRoute(messages) ==
    LET lastMessage == Last(messages)
    IN  IF IsAIMessage(lastMessage) /\ Len(lastMessage.calls) > 0
        THEN "calculatorTools"
        ELSE "coordinator"

RouteFn(route, state, ps) ==
    CASE route = "routeFromAgent" -> routeFromAgent(state.messages, ps)
      [] route = "routeAfterInitialize" -> routeAfterInitialize(state.messages)
      [] route = "moderatorRoute" -> moderatorRoute(state.messages)
      [] route = "creativeRoute" -> creativeRoute
      [] route = "pragmaticRoute" -> pragmaticRoute
      [] route = "criticRoute" -> criticRoute
      [] route = "shouldContinue" -> shouldContinue(state.messages)
      [] route = "researcherRoute" -> researcherRoute(state.messages)
      [] route = "calculatorRoute" -> calculatorRoute(state.messages)
      [] OTHER -> summarizerRoute(state.messages)

---------------------------------------------------------------------------
(* State & Reducer: merge(state, partial) *)

\* a reducer that drops messages already present in the channel
RECURSIVE AppendNew(_, _)
AppendNew(old, new) ==
    IF new = <<>> THEN old
    ELSE AppendNew(IF \E i \in 1..Len(old) : old[i] = Head(new)
                   THEN old ELSE Append(old, Head(new)), Tail(new))

mergeDedup(state, partial) ==
    [c \in (DOMAIN state) \cup (DOMAIN partial) |->
        IF c \notin DOMAIN partial THEN state[c]
        ELSE IF c = "messages"
        THEN AppendNew(IF c \in DOMAIN state THEN state[c] ELSE <<>>, partial[c])
        ELSE partial[c]]

\* a reducer that overwrites the messages channel like any other channel
mergeOverwrite(state, partial) ==
    [c \in (DOMAIN state) \cup (DOMAIN partial) |->
        IF c \notin DOMAIN partial THEN state[c] ELSE partial[c]]

merge(state, partial) ==
    [c \in (DOMAIN state) \cup (DOMAIN partial) |->
        IF c \notin DOMAIN partial THEN state[c]
        ELSE IF c = "messages"
        THEN (IF c \in DOMAIN state THEN state[c] ELSE <<>>) \o partial[c]
        ELSE partial[c]]

---------------------------------------------------------------------------
(* Executor: invoke(compiledGraph, initialState) *)

(* The RunContext: thread is the thread id the invoke was given ("none"   *)
(* without one), initial the state the run started from, cancel whether   *)
(* the caller has signalled cancellation, trace the nodes invoked so far  *)
(* in order, returned the value a caller's catch block returned in place  *)
(* of the run's state.                                                    *)
Idle ==
    [g |-> NoGraph, cur |-> END, state |-> [messages |-> <<>>], steps |-> 0,
     calls |-> 0, status |-> "idle", pc |-> "node", fails |-> 0,
     last |-> "none", key |-> "none", thread |-> "none",
     initial |-> [messages |-> <<>>], cancel |-> FALSE, trace |-> <<>>,
     returned |-> [messages |-> <<>>]]

NewRun(g, initialState) ==
    [g |-> g, cur |-> EntryOf(g), state |-> initialState, steps |-> 0,
     calls |-> 0, status |-> "running", pc |-> "node", fails |-> 0,
     last |-> "none", key |-> "none", thread |-> "none",
     initial |-> initialState, cancel |-> FALSE, trace |-> <<>>,
     returned |-> [messages |-> <<>>]]

\* a node-body failure becomes a synthetic error message
ErrorMessage(body) ==
    IF body.fn = "ToolNode" THEN ToolMessage(<<"error">>, 1)
    ELSE AIMessage(<<"error">>)

NodeStep(r, out) ==
    LET body == MapGet(r.g.nodes, r.cur)
        partial == IF out.threw THEN [messages |-> <<ErrorMessage(body)>>]
                   ELSE out.partial
    IN  [r EXCEPT !.state = merge(r.state, partial),
                  !.pc = "route",
                  !.calls = r.calls + 1,
                  !.fails = r.fails + (IF out.failed THEN 1 ELSE 0),
                  !.last = r.cur,
                  !.trace = Append(r.trace, r.cur)]

Resolved(err, key, target) == [err |-> err, key |-> key, target |-> target]

ResolveNext(g, cur, state, ps) ==
    LET bs == {b \in g.branches : b.src = cur}
        es == {e \in g.edges : e[1] = cur}
    IN  IF bs # {}
        THEN LET b == CHOOSE x \in bs : TRUE
                 key == RouteFn(b.route, state, ps)
                 hit == {e \in b.ends : e[1] = key}
             IN  IF hit = {} THEN Resolved("RoutingKeyError", key, cur)
                 ELSE Resolved("ok", key, (CHOOSE e \in hit : TRUE)[2])
        ELSE IF es = {} THEN Resolved("NoOutgoingEdgeError", "none", cur)
        ELSE Resolved("ok", "none", (CHOOSE e \in es : TRUE)[2])

\* an executor that treats an unknown routing key as the terminal marker
RouteStepDefault(r, ps) ==
    LET n == ResolveNext(r.g, r.cur, r.state, ps)
    IN  [r EXCEPT !.cur = IF n.err # "ok" THEN END ELSE n.target,
                  !.steps = r.steps + 1, !.pc = "node", !.key = n.key]

RouteStep(r, ps) ==
    LET n == ResolveNext(r.g, r.cur, r.state, ps)
    IN  IF n.err # "ok"
        THEN [r EXCEPT !.status = n.err, !.key = n.key]
        ELSE [r EXCEPT !.cur = n.target, !.steps = r.steps + 1,
                       !.pc = "node", !.key = n.key]

\* Checkpoint Collaborator: load(threadId) -> RunState | absent
load(store, threadId) ==
    IF threadId # "none" /\ MapHas(store, threadId)
    THEN MapGet(store, threadId)
    ELSE [messages |-> <<>>]

\* save(threadId, RunState), called only when the invoke was given a thread id
save(store, threadId, state) ==
    IF threadId = "none" THEN store ELSE MapSet(store, threadId, state)

\* node calls explored per run of a graph
Cap(g) ==
    CASE g.name = "plugin" -> MaxCalls
      [] g.name = "debate" -> MaxDebateCalls
      [] g.name = "orchestrator" ->
            IF probe.script.free THEN MaxOrchestratorCalls ELSE g.limit
      [] OTHER -> g.limit

ExecNode ==
    /\ run.status = "running"
    /\ run.pc = "node"
    /\ run.cur # END
    /\ ~run.cancel
    /\ run.steps < run.g.limit
    /\ run.calls < Cap(run.g)
    /\ \E o \in Outcomes(MapGet(run.g.nodes, run.cur), run.cur) :
          /\ o.ok \/ run.fails < MaxFailures
          /\ LET out == InvokeNode(run.cur, MapGet(run.g.nodes, run.cur),
                                   run.state, plugins, analyzer, o)
             IN  /\ run' = NodeStep(run, out)
                 /\ analyzer' = out.an
    /\ UNCHANGED <<plugins, toolNodes, graph, probe, checkpoints>>

Route ==
    /\ run.status = "running"
    /\ run.pc = "route"
    /\ run' = RouteStep(run, plugins)
    /\ UNCHANGED <<plugins, toolNodes, graph, analyzer, probe, checkpoints>>

Finish ==
    /\ run.status = "running"
    /\ run.pc = "node"
    /\ run.cur = END
    /\ run' = [run EXCEPT !.status = "done"]
    /\ checkpoints' = save(checkpoints, run.thread, run.state)
    /\ UNCHANGED <<plugins, toolNodes, graph, analyzer, probe>>

\* a limit check made before the terminal check
LimitExceededFirst ==
    /\ run.status = "running"
    /\ run.pc = "node"
    /\ run.steps >= run.g.limit
    /\ run' = [run EXCEPT !.status = "RecursionLimitExceeded"]
    /\ UNCHANGED <<plugins, toolNodes, graph, analyzer, probe, checkpoints>>

LimitExceeded ==
    /\ run.status = "running"
    /\ run.pc = "node"
    /\ run.cur # END
    /\ run.steps >= run.g.limit
    /\ run' = [run EXCEPT !.status = "RecursionLimitExceeded"]
    /\ UNCHANGED <<plugins, toolNodes, graph, analyzer, probe, checkpoints>>

\* the caller signals cancellation, at any moment of a run
cancel ==
    /\ run.status = "running"
    /\ ~run.cancel
    /\ run' = [run EXCEPT !.cancel = TRUE]
    /\ UNCHANGED <<plugins, toolNodes, graph, analyzer, probe, checkpoints>>

\* a cancellation check that also fires while a step is being completed
\* and gives up what the step merged
CancelledMidStep ==
    /\ run.status = "running"
    /\ run.cancel
    /\ run' = [run EXCEPT !.status = "CancelledError",
                          !.state = IF run.pc = "route" THEN run.initial ELSE @]
    /\ checkpoints' = save(checkpoints, run.thread, run'.state)
    /\ UNCHANGED <<plugins, toolNodes, graph, analyzer, probe>>

\* the executor's cancellation check, made between steps
Cancelled ==
    /\ run.status = "running"
    /\ run.pc = "node"
    /\ run.cancel
    /\ run' = [run EXCEPT !.status = "CancelledError"]
    /\ checkpoints' = save(checkpoints, run.thread, run.state)
    /\ UNCHANGED <<plugins, toolNodes, graph, analyzer, probe>>

---------------------------------------------------------------------------
(* Entry points.  probe.program is the program (source file) running.     *)

Program(p) == [program |-> p]

\* AgentWithPlugins.initialize
initialize ==
    /\ probe.program = "plugins"
    /\ graph' = buildGraph(plugins, toolNodes)
    /\ UNCHANGED <<plugins, toolNodes, analyzer, run, probe, checkpoints>>

\* the failures graph.invoke ends a run with
GraphErrors ==
    {"RoutingKeyError", "NoOutgoingEdgeError", "RecursionLimitExceeded"}

\* AgentWithPlugins.run(message), up to the start of graph.invoke
agentRun ==
    /\ probe.program = "plugins"
    /\ run.status \notin {"running"} \cup GraphErrors
    /\ graph' = IF graph.built THEN graph ELSE buildGraph(plugins, toolNodes)
    /\ run' = NewRun(graph', [messages |-> <<HumanMessage(<<"question">>)>>])
    /\ UNCHANGED <<plugins, toolNodes, analyzer, probe, checkpoints>>

\* the text of run(message)'s simplified response
ErrorExplanation(message) ==
    <<"I encountered an error while processing your request: ", message,
      ". This might be due to a tool misbehaving or a recursion issue.">>

\* a catch block that returns the accumulated messages with the explanation
runCatchKeepTranscript ==
    /\ probe.program = "plugins"
    /\ run.status \in GraphErrors
    /\ run' = [run EXCEPT
           !.status = "caught",
           !.returned = [messages |-> Append(run.state.messages,
                                             AIMessage(ErrorExplanation(run.status)))]]
    /\ UNCHANGED <<plugins, toolNodes, graph, analyzer, probe, checkpoints>>

\* AgentWithPlugins.run(message): the catch block around graph.invoke
runCatch ==
    /\ probe.program = "plugins"
    /\ run.status \in GraphErrors
    /\ run' = [run EXCEPT
           !.status = "caught",
           !.returned = [messages |-> <<HumanMessage(<<"question">>),
                                       AIMessage(ErrorExplanation(run.status))>>]]
    /\ UNCHANGED <<plugins, toolNodes, graph, analyzer, probe, checkpoints>>

\* FileAnalyzer.analyzeFile(filePath), up to the start of graph.invoke
analyzeFile(filePath) ==
    /\ probe.program = "fileAnalyzer"
    /\ run.status # "running"
    /\ run' = NewRun(fileAnalyzerGraph,
           [messages |-> <<HumanMessage(<<"Please analyze this file: ", filePath>>)>>])
    /\ UNCHANGED <<plugins, toolNodes, graph, analyzer, probe, checkpoints>>

\* analyzer.graph.invoke(initialState): the compiled graph the instance
\* holds in its field graph, invoked with a state of the caller's making
graphInvoke(messages) ==
    /\ probe.program = "fileAnalyzer"
    /\ run.status # "running"
    /\ run' = NewRun(fileAnalyzerGraph, [messages |-> messages])
    /\ UNCHANGED <<plugins, toolNodes, graph, analyzer, probe, checkpoints>>

\* RagMemoryChatbot.chat(message), up to the start of graph.invoke
chat ==
    /\ probe.program = "rag"
    /\ run.status # "running"
    /\ run' = NewRun(ragGraph, [messages |-> <<HumanMessage(<<"question">>)>>])
    /\ UNCHANGED <<plugins, toolNodes, graph, analyzer, probe, checkpoints>>

\* debateTeam.invoke({messages: [new HumanMessage(topic)]})
debateInvoke ==
    /\ probe.program = "debate"
    /\ run.status # "running"
    /\ run' = NewRun(debateGraph, [messages |-> <<HumanMessage(<<"topic">>)>>])
    /\ UNCHANGED <<plugins, toolNodes, graph, analyzer, probe, checkpoints>>

\* app.invoke({ messages: [new HumanMessage(question)] }) of the multi-agent
\* system
multiAgentInvoke ==
    /\ probe.program = "orchestrator"
    /\ run.status # "running"
    /\ run' = NewRun(orchestratorGraph, [messages |-> <<HumanMessage(<<"question">>)>>])
    /\ UNCHANGED <<plugins, toolNodes, graph, analyzer, probe, checkpoints>>

\* an invoke that does not hand the thread's saved state to the run
appInvokeFresh(input, threadId) ==
    /\ probe.program = "chat"
    /\ run.status # "running"
    /\ Len(load(checkpoints, threadId).messages) + 2 <= MaxHistory
    /\ run' = [NewRun(linearGraph(probe.chain, probe.limit), input)
                  EXCEPT !.thread = threadId]
    /\ UNCHANGED <<plugins, toolNodes, graph, analyzer, probe, checkpoints>>

\* app.invoke(input, { configurable: { thread_id } }): the run starts from
\* the state saved for the thread, with the input merged into it
appInvoke(input, threadId) ==
    /\ probe.program = "chat"
    /\ run.status # "running"
    /\ Len(load(checkpoints, threadId).messages) + 2 <= MaxHistory
    /\ run' = [NewRun(linearGraph(probe.chain, probe.limit),
                      merge(load(checkpoints, threadId), input))
                  EXCEPT !.thread = threadId]
    /\ UNCHANGED <<plugins, toolNodes, graph, analyzer, probe, checkpoints>>

---------------------------------------------------------------------------

Fresh ==
    /\ plugins = <<>>
    /\ toolNodes = <<>>
    /\ graph = NoGraph
    /\ analyzer = NewAnalyzer
    /\ run = Idle
    /\ checkpoints = <<>>

Init ==
    /\ Fresh
    /\ probe \in {Program("plugins"), Program("fileAnalyzer"), Program("rag")}

\* The plugin agent (registry calls interleaved with runs of its graph),
\* the file analyzer and the RAG chatbot.  Their recursion limits lie
\* beyond the node calls explored, so LimitExceeded has no place here.
Next ==
    \/ \E n \in PluginNames :
          probe.program = "plugins" /\ registerPlugin(n, ToolOf(n), DescOf(n))
    \/ \E n \in PluginNames : probe.program = "plugins" /\ unregisterPlugin(n)
    \/ \E n \in PluginNames, b \in BOOLEAN :
          probe.program = "plugins" /\ setPluginEnabled(n, b)
    \/ initialize
    \/ agentRun
    \/ runCatch
    \/ \E f \in Paths : analyzeFile(f)
    \/ chat
    \/ ExecNode
    \/ Route
    \/ Finish

Spec == Init /\ [][Next]_vars

\* The debate team: runs of the debate graph.
InitDebate ==
    /\ Fresh
    /\ probe = Program("debate")

NextDebate ==
    \/ debateInvoke
    \/ ExecNode
    \/ Route
    \/ Finish
    \/ LimitExceeded

SpecDebate == InitDebate /\ [][NextDebate]_vars

\* The plugin registry by itself: registrations with either of two
\* capabilities and descriptions per name, and builds of the graph.
AltToolOf(name) == IF name = "weather" THEN "get_forecast" ELSE "translate_v2"
AltDesc == "Updated description"
Capabilities(name) == {ToolOf(name), AltToolOf(name)}
Descriptions(name) == {DescOf(name), AltDesc}

InitRegistry ==
    /\ Fresh
    /\ probe = Program("plugins")

NextRegistry ==
    \/ \E n \in PluginNames :
          \E t \in Capabilities(n), d \in Descriptions(n) : registerPlugin(n, t, d)
    \/ \E n \in PluginNames : unregisterPlugin(n)
    \/ \E n \in PluginNames, b \in BOOLEAN : setPluginEnabled(n, b)
    \/ initialize

SpecRegistry == InitRegistry /\ [][NextRegistry]_vars

\* Two runs on one FileAnalyzer instance, their node steps interleaved:
\* run is the run whose step comes next, probe.other the run that waits
\* at an await.
Threads(p) == [program |-> p, other |-> Idle, thread |-> 1]

\* the event loop resumes the other run
Switch ==
    /\ "other" \in DOMAIN probe
    /\ run' = probe.other
    /\ probe' = [probe EXCEPT !.other = run, !.thread = 3 - @]
    /\ UNCHANGED <<plugins, toolNodes, graph, analyzer, checkpoints>>

InitConcurrent ==
    /\ Fresh
    /\ probe = Threads("fileAnalyzer")

NextConcurrent ==
    \/ \E f \in Paths : analyzeFile(f)
    \/ ExecNode
    \/ Route
    \/ Finish
    \/ Switch

SpecConcurrent == InitConcurrent /\ [][NextConcurrent]_vars

\* The chatbots: the chatbot app with its checkpointer (invokes on threads
\* of one store, with and without a thread id) and the RAG chatbot, whose
\* nodes write the channels documents and context.
ThreadIds == {"42", "agent1", "none"}

\* the inputs of invoke: the user's message and the language channel
ChatInputs ==
    {[messages |-> <<HumanMessage(<<"hi">>)>>, language |-> "Hindi"],
     [messages |-> <<HumanMessage(<<"what about ny">>)>>, language |-> "French"]}

ChatApp(k, limit) == [program |-> "chat", chain |-> k, limit |-> limit]

InitChat ==
    /\ Fresh
    /\ probe \in {ChatApp(1, DefaultRecursionLimit), Program("rag")}

NextChat ==
    \/ \E i \in ChatInputs, t \in ThreadIds : appInvoke(i, t)
    \/ chat
    \/ ExecNode
    \/ Route
    \/ Finish

SpecChat == InitChat /\ [][NextChat]_vars

\* Chains start -> n1 -> ... -> nk -> terminal of model nodes, compiled
\* with recursion limits below, at and above the chain's length, and run
\* by a caller that may signal cancellation.
Limits == (1..MaxChain) \cup {DefaultRecursionLimit}

InitChain ==
    /\ Fresh
    /\ probe \in {ChatApp(k, l) : k \in 1..MaxChain, l \in Limits}

NextChain ==
    \/ \E i \in ChatInputs : appInvoke(i, "none")
    \/ ExecNode
    \/ Route
    \/ Finish
    \/ LimitExceeded
    \/ cancel
    \/ Cancelled

SpecChain == InitChain /\ [][NextChain]_vars

\* The file analyzer's graph: runs started by analyzeFile, and runs started
\* on the graph itself with a state that holds no human message.
DirectInputs == {<<>>, <<AIMessage(<<"hello">>)>>}

InitAnalyzer ==
    /\ Fresh
    /\ probe = Program("fileAnalyzer")

NextAnalyzer ==
    \/ \E f \in Paths : analyzeFile(f)
    \/ \E ms \in DirectInputs : graphInvoke(ms)
    \/ ExecNode
    \/ Route
    \/ Finish

SpecAnalyzer == InitAnalyzer /\ [][NextAnalyzer]_vars

\* The multi-agent system: runs of its graph with the models' replies
\* chosen freely, and runs in which every model repeats one reply, which
\* are followed up to the recursion limit.
Orchestrator(script) == [program |-> "orchestrator", script |-> script]

Scripts ==
    {FreeReplies} \cup
    {Script(FALSE, r, t) : r \in CoordinatorReplies, t \in BOOLEAN}

InitOrchestrator ==
    /\ Fresh
    /\ probe \in {Orchestrator(sc) : sc \in Scripts}

NextOrchestrator ==
    \/ multiAgentInvoke
    \/ ExecNode
    \/ Route
    \/ Finish
    \/ LimitExceeded

SpecOrchestrator == InitOrchestrator /\ [][NextOrchestrator]_vars

\* The three graphs with fixed topology side by side: the multi-agent
\* system, the debate team and the file analyzer.
InitGraphs ==
    /\ Fresh
    /\ probe \in {Program("debate"), Program("fileAnalyzer")}
                  \cup {Orchestrator(sc) : sc \in Scripts}

NextGraphs ==
    \/ multiAgentInvoke
    \/ debateInvoke
    \/ \E f \in Paths : analyzeFile(f)
    \/ \E ms \in DirectInputs : graphInvoke(ms)
    \/ ExecNode
    \/ Route
    \/ Finish
    \/ LimitExceeded

SpecGraphs == InitGraphs /\ [][NextGraphs]_vars

\* AgentWithPlugins.buildGraph, call by call: the agent node is added
\* first, then one node per enabled tool node under the plugin's name.
\* The registry may hold a plugin under any name, "agent" included.
BuilderNames == PluginNames \cup {"agent"}

BuilderRegistries ==
    UNION {{[i \in 1..n |->
                [k |-> ns[i],
                 v |-> PluginInfo(ToolOf(ns[i]), DescOf(ns[i]), fl[i])]] :
              ns \in {x \in [1..n -> BuilderNames] :
                         \A i, j \in 1..n : x[i] = x[j] => i = j},
              fl \in [1..n -> BOOLEAN]} : n \in 0..Cardinality(BuilderNames)}

\* the tool nodes registerPlugin derived for the plugins of ps
ToolNodesOf(ps) ==
    [i \in 1..Len(ps) |-> [k |-> ps[i].k, v |-> ToolNode(<<ps[i].v.tool>>)]]

InitBuilder ==
    /\ Fresh
    /\ probe \in {[program |-> "builder", ps |-> ps, workflow |-> NewBuilder,
                   added |-> 0] : ps \in BuilderRegistries}

\* the next workflow.addNode call of buildGraph; a failed call ends it
workflowAddNode ==
    /\ probe.program = "builder"
    /\ probe.workflow.err = "none"
    /\ LET toolNodesToAdd == getEnabledToolNodes(probe.ps, ToolNodesOf(probe.ps))
       IN  /\ probe.added <= Len(toolNodesToAdd)
           /\ probe' = [probe EXCEPT
                  !.added = @ + 1,
                  !.workflow =
                      IF probe.added = 0
                      THEN addNode(@, "agent", NodeBody("agentNode", <<>>))
                      ELSE addNode(@, toolNodesToAdd[probe.added].k,
                                   NodeBody("ToolNode", toolNodesToAdd[probe.added].v.tools))]
    /\ UNCHANGED <<plugins, toolNodes, graph, analyzer, run, checkpoints>>

NextBuilder == workflowAddNode

SpecBuilder == InitBuilder /\ [][NextBuilder]_vars

---------------------------------------------------------------------------
(* The reducer as a pure function: merge applied to sampled states and    *)
(* partial updates.                                                       *)

MaxSeqLen == 2

SampleMessages == {HumanMessage(<<"q">>), AIMessage(<<"a">>)}
BoundedSeqs(S, n) == UNION {[1..k -> S] : k \in 0..n}

InitMerge ==
    /\ Fresh
    /\ probe \in {[program |-> "merge", applied |-> FALSE,
                   state |-> [messages |-> s], A |-> [messages |-> a],
                   B |-> [messages |-> b],
                   left |-> [messages |-> <<>>], right |-> [messages |-> <<>>]] :
                  s \in BoundedSeqs(SampleMessages, MaxSeqLen),
                  a \in BoundedSeqs(SampleMessages, MaxSeqLen),
                  b \in BoundedSeqs(SampleMessages, MaxSeqLen)}

applyMerge ==
    /\ probe.program = "merge"
    /\ ~probe.applied
    /\ probe' = [probe EXCEPT
           !.applied = TRUE,
           !.left = merge(merge(probe.state, probe.A), probe.B),
           !.right = merge(probe.state,
                           [messages |-> probe.A.messages \o probe.B.messages])]
    /\ UNCHANGED <<plugins, toolNodes, graph, analyzer, run, checkpoints>>

NextMerge == applyMerge

SpecMerge == InitMerge /\ [][NextMerge]_vars

---------------------------------------------------------------------------
(* The agent's router as a pure function: routeFromAgent applied to the   *)
(* transcript of k completed tool rounds followed by the agent's latest   *)
(* message, under sampled registries.                                     *)

MaxRounds == 10

RECURSIVE Rounds(_)
Rounds(k) ==
    IF k = 0 THEN <<>>
    ELSE Rounds(k - 1) \o <<AIToolCalls(<<"translate">>), ToolMessage(<<"result">>, 1)>>

Transcript(k, o) ==
    <<HumanMessage(<<"question">>)>> \o Rounds(k)
        \o <<IF o.calls = <<>> THEN AIMessage(<<o.token>>) ELSE AIToolCalls(o.calls)>>

Registry(names, enabled) ==
    [i \in 1..Len(names) |->
        [k |-> names[i],
         v |-> PluginInfo(ToolOf(names[i]), DescOf(names[i]), enabled)]]

SampleRegistries ==
    {Registry(<<>>, TRUE), Registry(<<"translate">>, TRUE),
     Registry(<<"translate">>, FALSE), Registry(<<"translate", "weather">>, TRUE)}

\* tool calls that name a tool by its own name, the name the model bound
\* to getEnabledTools() sees
ToolNameOutcomes == {Outcome(TRUE, <<ToolOf(n)>>, "text") : n \in PluginNames}

InitRoute ==
    /\ Fresh
    /\ probe \in {[program |-> "route", applied |-> FALSE,
                   messages |-> Transcript(k, o), ps |-> ps, key |-> "none"] :
                  k \in 0..MaxRounds, o \in AgentOutcomes \cup ToolNameOutcomes,
                  ps \in SampleRegistries}

applyRoute ==
    /\ probe.program = "route"
    /\ ~probe.applied
    /\ probe' = [probe EXCEPT !.applied = TRUE,
                              !.key = routeFromAgent(probe.messages, probe.ps)]
    /\ UNCHANGED <<plugins, toolNodes, graph, analyzer, run, checkpoints>>

NextRoute == applyRoute

SpecRoute == InitRoute /\ [][NextRoute]_vars

---------------------------------------------------------------------------
(* Properties *)

\* the arcs of a compiled graph: its edges and its conditional-edge targets
Arcs(g) ==
    g.edges \cup UNION {{<<b.src, e[2]>> : e \in b.ends} : b \in g.branches}

RECURSIVE ReachWithin(_, _, _)
ReachWithin(g, S, n) ==
    IF n = 0 THEN S
    ELSE ReachWithin(g, S \cup {a[2] : a \in {x \in Arcs(g) : x[1] \in S}}, n - 1)

IsAcyclic(g) ==
    \A n \in KeySet(g.nodes) :
        n \notin ReachWithin(g, {a[2] : a \in {x \in Arcs(g) : x[1] = n}},
                             Len(g.nodes))

\* C1: every invoke of a compiled graph with recursion limit L either
\* returns at the terminal marker or fails with RecursionLimitExceeded with
\* steps = L, and no run invokes more than L node bodies.
InvokeEndsAtTerminalOrLimit ==
    /\ run.status \in {"idle", "running", "done", "RecursionLimitExceeded"}
    /\ run.status = "RecursionLimitExceeded" => run.steps = run.g.limit
    /\ run.calls <= run.g.limit

\* C2: a run of a compiled graph without cycles reaches the terminal marker
\* after at most (number of nodes) node invocations, whatever its router
\* functions return.
AcyclicReachesTerminal ==
    (run.status # "idle" /\ IsAcyclic(run.g)) =>
        /\ run.calls <= Len(run.g.nodes)
        /\ run.status \in {"running", "done"}

\* C3: merge is associative on the messages channel: merging A and then B
\* gives the same messages as merging their concatenation once, which is
\* the state's messages followed by A's and then B's, duplicates kept.
MergeAssociative ==
    probe.applied =>
        /\ probe.left.messages = probe.right.messages
        /\ probe.left.messages =
               probe.state.messages \o probe.A.messages \o probe.B.messages

MergeKeepsIdenticalMessages ==
    /\ probe.applied
    /\ probe.state.messages = <<AIMessage(<<"a">>)>>
    /\ probe.A.messages = <<AIMessage(<<"a">>)>>
    /\ probe.B.messages = <<AIMessage(<<"a">>), AIMessage(<<"a">>)>>
    /\ Len(probe.left.messages) = 4

\* C4: within a run the messages channel is prefix-monotone: after every
\* completed step the messages before the step are a prefix of the
\* messages after it.
MessagesPrefixMonotone ==
    [][run.status = "running" =>
          IsPrefix(run.state.messages, run'.state.messages)]_vars

AnalysisTranscriptGrew ==
    /\ run.g.name = "fileAnalyzer"
    /\ run.status = "done"
    /\ run.calls = 4
    /\ Len(run.state.messages) > 4

\* the router of the current node returns a key its target map lacks
KeyMissing(r, ps) ==
    \E b \in r.g.branches :
        /\ b.src = r.cur
        /\ RouteFn(b.route, r.state, ps) \notin {e[1] : e \in b.ends}

\* C5: when a conditional edge's router returns a key that is neither in
\* the target map nor a default, invoke fails with RoutingKeyError and the
\* run state is what it was before that routing step.
BadKeyRaisesRoutingKeyError ==
    [][(/\ run.status = "running"
        /\ run.pc = "route"
        /\ KeyMissing(run, plugins)
        /\ run' # run) =>
          /\ run'.status = "RoutingKeyError"
          /\ run'.state = run.state
          /\ run'.cur = run.cur
          /\ run'.steps = run.steps]_vars

RoutingKeyErrorRaised ==
    /\ run.status = "RoutingKeyError"
    /\ run.last = "agent"
    /\ run.key \notin {e[1] : e \in UNION {b.ends : b \in run.g.branches}}
    /\ Len(run.state.messages) = 4

\* a message that shows a failure in the transcript
VisibleError(m) ==
    \/ m = FallbackMessage
    \/ m = AIMessage(<<"error">>)
    \/ m = ToolMessage(<<"error">>, 1)
    \/ Includes(m.content, "Error loading")

\* C6: a failure thrown by a node body never aborts the run: the step that
\* failed ends with an error message appended to the messages channel and
\* the run at its next routing step, and the failure stays visible in the
\* transcript.
NodeFailureBecomesMessage ==
    /\ [][run'.fails > run.fails =>
            /\ run'.status = "running"
            /\ run'.pc = "route"
            /\ VisibleError(Last(run'.state.messages))
            /\ IsPrefix(run.state.messages, run'.state.messages)]_vars
    /\ [](run.fails > 0 =>
            \E i \in 1..Len(run.state.messages) : VisibleError(run.state.messages[i]))

GeneratorFailureSurvived ==
    /\ run.g.name = "rag"
    /\ run.status = "done"
    /\ run.fails > 0
    /\ run.last = "generator"
    /\ VisibleError(Last(run.state.messages))

\* C7: when invoke fails with RecursionLimitExceeded at limit L, the
\* messages of the L completed node calls are kept with the error: in a
\* cycle whose nodes append one message each, the input is followed by
\* exactly L appended messages.
LimitKeepsTranscript ==
    run.status = "RecursionLimitExceeded" =>
        /\ run.steps = run.g.limit
        /\ run.calls = run.g.limit
        /\ Len(run.state.messages) = 1 + run.g.limit
        /\ run.state.messages[1] = HumanMessage(<<"topic">>)

DebateHitLimit ==
    /\ run.status = "RecursionLimitExceeded"
    /\ run.g.name = "debate"
    /\ Len(run.state.messages) = 1 + DefaultRecursionLimit

\* the agent's latest message asks for a tool that is enabled in the registry
AsksEnabledTool(r, ps, tns) ==
    /\ r.cur = "agent"
    /\ IsAIMessage(Last(r.state.messages))
    /\ Len(Last(r.state.messages).calls) > 0
    /\ Last(r.state.messages).calls[1] \in KeySet(getEnabledToolNodes(ps, tns))

\* C8: in the tool loop, when the agent's latest message carries a tool
\* call whose name matches a currently enabled tool node, the next node
\* executed is that tool's node, and the node executed after a tool node is
\* the agent.
ToolLoopRoutesToEnabledTool ==
    [][(/\ run.g.name = "plugin"
        /\ run.status = "running"
        /\ run.pc = "route"
        /\ run' # run) =>
          /\ AsksEnabledTool(run, plugins, toolNodes) =>
                /\ run'.status = "running"
                /\ run'.cur = Last(run.state.messages).calls[1]
          /\ run.cur # "agent" =>
                /\ run'.status = "running"
                /\ run'.cur = "agent"]_vars

\* C9: from the agent node the run goes to the terminal marker when the
\* latest message has no tool calls, when its tool-call name matches no
\* enabled tool, and when the count of assistant messages exceeds the turn
\* threshold, also if the latest message asks for an enabled tool.
AgentRoutesToTerminal ==
    probe.applied =>
        LET lastMessage == Last(probe.messages)
            enabled == getEnabledPlugins(probe.ps)
        IN  (\/ Len(lastMessage.calls) = 0
             \/ ~(\E i \in 1..Len(enabled) : enabled[i].name = lastMessage.calls[1])
             \/ CountAI(probe.messages) > TurnThreshold)
            => probe.key = END

\* the routing step after an agent call that asked for the tool "ghost",
\* which no registry ever holds, has been taken
GhostRouted ==
    /\ run.g.name = "plugin"
    /\ run.last = "agent"
    /\ IsAIMessage(Last(run.state.messages))
    /\ Last(run.state.messages).calls = <<"ghost">>
    /\ ~(run.status = "running" /\ run.pc = "route")

GraphNames(g) ==
    KeySet(g.nodes) \cup {a[1] : a \in Arcs(g)} \cup {a[2] : a \in Arcs(g)}
        \cup UNION {{e[1] : e \in b.ends} : b \in g.branches}

EnabledNames(ps) == {getEnabledPlugins(ps)[i].name : i \in 1..Len(getEnabledPlugins(ps))}

\* C11: after unregister(name) of a registered plugin, enabledToolNodes()
\* and enabledTools() no longer contain that plugin, and a graph built
\* after the unregistration has neither a node nor a route key for it.
UnregisteredPluginGone ==
    /\ [][\A n \in PluginNames :
            (MapHas(plugins, n) /\ unregisterPlugin(n)) =>
                /\ n \notin KeySet(getEnabledToolNodes(plugins', toolNodes'))
                /\ n \notin EnabledNames(plugins')
                /\ MapGet(plugins, n).tool \notin SeqToSet(getEnabledTools(plugins'))
                /\ n \notin GraphNames(buildGraph(plugins', toolNodes'))]_vars
    /\ [][initialize =>
            \A n \in PluginNames : ~MapHas(plugins, n) => n \notin GraphNames(graph')]_vars

\* translate was in the graph built earlier and has been unregistered since
TranslateUnregisteredAfterBuild ==
    /\ graph.built
    /\ "translate" \in KeySet(graph.nodes)
    /\ ~MapHas(plugins, "translate")
    /\ MapHas(plugins, "weather")
    /\ "translate" \notin GraphNames(buildGraph(plugins, toolNodes))

\* C12: a compiled graph is never mutated: every step that changes the
\* registry (a register, unregister or setEnabled call) leaves the compiled
\* graph's node table, edges, conditional target map and recursion limit
\* unchanged, and a run keeps the graph it was started on.
CompiledGraphImmutable ==
    /\ [][(plugins' # plugins \/ toolNodes' # toolNodes) =>
            (graph' = graph /\ run'.g = run.g)]_vars
    /\ [][run.status = "running" => run'.g = run.g]_vars

RegistryChangedAfterCompile ==
    /\ run.status = "running"
    /\ run.g = graph
    /\ KeySet(graph.nodes) = {"agent"}
    /\ Len(plugins) = 2
    /\ EnabledNames(plugins) = {"weather"}

\* the number of enabled plugins among the first i registry entries
RECURSIVE EnabledUpTo(_, _)
EnabledUpTo(ps, i) ==
    IF i = 0 THEN 0
    ELSE EnabledUpTo(ps, i - 1) + (IF ps[i].v.enabled THEN 1 ELSE 0)

\* C13: enabledTools() returns exactly the plugins whose enabled flag is
\* true, in registration order: a first registration goes to the end, a
\* re-registration and setEnabled keep the order, and enabling a disabled
\* plugin puts its tool at its registration position.
EnabledToolsInRegistrationOrder ==
    /\ [](/\ Len(getEnabledTools(plugins)) = EnabledUpTo(plugins, Len(plugins))
          /\ \A i \in 1..Len(plugins) :
                plugins[i].v.enabled =>
                    getEnabledTools(plugins)[EnabledUpTo(plugins, i)] = plugins[i].v.tool)
    /\ [][\A n \in PluginNames :
            /\ (\E t \in Capabilities(n), d \in Descriptions(n) : registerPlugin(n, t, d)) =>
                  MapKeys(plugins') = IF MapHas(plugins, n) THEN MapKeys(plugins)
                                      ELSE Append(MapKeys(plugins), n)
            /\ (\E b \in BOOLEAN : setPluginEnabled(n, b)) =>
                  MapKeys(plugins') = MapKeys(plugins)
            /\ unregisterPlugin(n) =>
                  MapKeys(plugins') = SelectSeq(MapKeys(plugins), LAMBDA k : k # n)]_vars

\* weather was disabled when the graph was built and is enabled now
SecondPluginEnabledLater ==
    /\ MapKeys(plugins) = <<"translate", "weather">>
    /\ getEnabledTools(plugins) = <<"translate", "get_weather">>
    /\ graph.built
    /\ KeySet(graph.nodes) = {"agent", "translate"}

\* the registry already holds exactly what register(n, t, d) stores
Holds(ps, tns, n, t, d) ==
    /\ MapHas(ps, n) /\ MapGet(ps, n) = PluginInfo(t, d, TRUE)
    /\ MapHas(tns, n) /\ MapGet(tns, n) = ToolNode(<<t>>)

\* C14: register is an idempotent overwrite: it never fails, also for a
\* name that exists; it stores the given capability and description under
\* the name and leaves the other plugins alone; and registering what was
\* just registered leaves the registry as it is.
RegisterIdempotentOverwrite ==
    /\ [](\A n \in PluginNames :
            \A t \in Capabilities(n), d \in Descriptions(n) :
                ENABLED registerPlugin(n, t, d))
    /\ [][\A n \in PluginNames :
            \A t \in Capabilities(n), d \in Descriptions(n) :
                registerPlugin(n, t, d) =>
                    /\ Holds(plugins', toolNodes', n, t, d)
                    /\ \A k \in KeySet(plugins) \ {n} :
                          /\ MapHas(plugins', k)
                          /\ MapGet(plugins', k) = MapGet(plugins, k)
                          /\ MapGet(toolNodes', k) = MapGet(toolNodes, k)
                    /\ KeySet(plugins') = KeySet(plugins) \cup {n}
                    /\ Holds(plugins, toolNodes, n, t, d) =>
                          UNCHANGED <<plugins, toolNodes>>]_vars

\* translate sits in the graph with its first capability and in the
\* registry, at its old position, with the capability registered later
CapabilityReplaced ==
    /\ MapKeys(plugins) = <<"translate", "weather">>
    /\ Holds(plugins, toolNodes, "translate", AltToolOf("translate"), AltDesc)
    /\ graph.built
    /\ MapHas(graph.nodes, "translate")
    /\ MapGet(graph.nodes, "translate").tools = <<ToolOf("translate")>>
    /\ MapHas(graph.nodes, "weather")

\* C15: unregister(name) returns true exactly when name was registered;
\* then the plugin and its tool node are both removed and nothing else
\* is; for an unknown name it returns false and the registry is unchanged.
UnregisterReturnsWhetherRemoved ==
    /\ [](\A n \in PluginNames :
            unregisterPluginResult(plugins, n) = MapHas(plugins, n))
    /\ [][\A n \in PluginNames :
            unregisterPlugin(n) =>
                IF unregisterPluginResult(plugins, n)
                THEN /\ plugins' = SelectSeq(plugins, LAMBDA e : e.k # n)
                     /\ toolNodes' = SelectSeq(toolNodes, LAMBDA e : e.k # n)
                     /\ ~MapHas(plugins', n) /\ ~MapHas(toolNodes', n)
                ELSE UNCHANGED <<plugins, toolNodes>>]_vars

WeatherUnregisteredAfterBuild ==
    /\ graph.built
    /\ MapHas(graph.nodes, "weather")
    /\ ~MapHas(plugins, "weather")
    /\ ~MapHas(toolNodes, "weather")
    /\ MapKeys(plugins) = <<"translate">>
    /\ ~unregisterPluginResult(plugins, "weather")

\* C16: setEnabled(name, flag) on an unknown name returns false and leaves
\* the registry unchanged; on a known name it returns true and changes
\* only that plugin's enabled flag.
SetEnabledChangesOnlyFlag ==
    /\ [](\A n \in PluginNames :
            setPluginEnabledResult(plugins, n) = MapHas(plugins, n))
    /\ [][\A n \in PluginNames, b \in BOOLEAN :
            setPluginEnabled(n, b) =>
                IF setPluginEnabledResult(plugins, n)
                THEN /\ plugins' =
                          [i \in 1..Len(plugins) |->
                              IF plugins[i].k = n
                              THEN [k |-> n, v |-> [plugins[i].v EXCEPT !.enabled = b]]
                              ELSE plugins[i]]
                     /\ UNCHANGED <<toolNodes, graph>>
                ELSE UNCHANGED <<plugins, toolNodes, graph>>]_vars

TranslateDisabledAfterBuild ==
    /\ graph.built
    /\ MapHas(graph.nodes, "translate")
    /\ MapKeys(plugins) = <<"translate", "weather">>
    /\ MapGet(plugins, "translate") =
           PluginInfo(ToolOf("translate"), DescOf("translate"), FALSE)
    /\ MapGet(plugins, "weather").enabled
    /\ setPluginEnabledResult(plugins, "translate")

\* C17: tool nodes correspond 1:1 to plugins (same names in both tables,
\* each node derived from its plugin's capability), and enabledToolNodes()
\* has exactly the names of the enabled plugins, in the order of
\* enabledTools().
ToolNodesMatchPlugins ==
    /\ MapKeys(toolNodes) = MapKeys(plugins)
    /\ \A i \in 1..Len(plugins) : toolNodes[i].v = ToolNode(<<plugins[i].v.tool>>)
    /\ MapKeys(getEnabledToolNodes(plugins, toolNodes)) =
           [i \in 1..Len(getEnabledPlugins(plugins)) |-> getEnabledPlugins(plugins)[i].name]
    /\ [i \in 1..Len(getEnabledToolNodes(plugins, toolNodes)) |->
           getEnabledToolNodes(plugins, toolNodes)[i].v.tools[1]] = getEnabledTools(plugins)

OneOfTwoNodesEnabled ==
    /\ ~graph.built
    /\ MapKeys(toolNodes) = <<"translate", "weather">>
    /\ ~MapGet(plugins, "translate").enabled
    /\ MapKeys(getEnabledToolNodes(plugins, toolNodes)) = <<"weather">>
    /\ getEnabledTools(plugins) = <<"get_weather">>

RECURSIVE RunToEnd(_, _, _)
RunToEnd(r, an, os) ==
    IF r.status # "running" THEN r
    ELSE IF r.pc = "route" THEN RunToEnd(RouteStep(r, <<>>), an, os)
    ELSE IF r.cur = END THEN [r EXCEPT !.status = "done"]
    ELSE IF os = <<>> THEN r
    ELSE LET out == InvokeNode(r.cur, MapGet(r.g.nodes, r.cur), r.state, <<>>,
                               an, Head(os))
         IN  RunToEnd(NodeStep(r, out), out.an, Tail(os))

\* the final states of a failure-free analysis of path p run alone
AloneFinals ==
    [p \in Paths |->
        {RunToEnd(NewRun(fileAnalyzerGraph,
                         [messages |-> <<HumanMessage(<<"Please analyze this file: ", p>>)>>]),
                  NewAnalyzer,
                  <<o, Outcome(TRUE, <<>>, "text"), Outcome(TRUE, <<>>, "text"),
                    Outcome(TRUE, <<>>, "text")>>).state : o \in FileOutcomes}]

\* C19: distinct runs are independent: a run whose node steps interleave
\* with another run's on the same workflow object ends in the state it
\* produces when run alone (stated for runs without a failed call).
ConcurrentRunsIndependent ==
    (run.g.name = "fileAnalyzer" /\ run.status = "done" /\ run.fails = 0) =>
        run.state \in AloneFinals[run.state.messages[1].content[2]]

\* C20: no run step interleaved with register, unregister or setEnabled
\* calls observes a half-updated registry: at every step of a run each
\* plugin has its tool node and each tool node its plugin.
RunsSeeWholeRegistry ==
    [][(run.status = "running" /\ run' # run) =>
          /\ KeySet(plugins) = KeySet(toolNodes)
          /\ \A n \in KeySet(plugins) :
                MapGet(toolNodes, n) = ToolNode(<<MapGet(plugins, n).tool>>)]_vars

\* the agent's prompt was built before translate was registered and the
\* routing step of the same run found translate enabled
RegisteredBetweenNodeAndRoute ==
    /\ run.status = "RoutingKeyError"
    /\ run.key = "translate"
    /\ run.calls = 1
    /\ IsSystemMessage(run.state.messages[2])
    /\ ~Includes(run.state.messages[2].content, "translate")
    /\ MapHas(plugins, "translate") /\ MapHas(toolNodes, "translate")

\* C21: an invoke given a thread id starts, before its first step, from
\* the state saved for that thread with the input appended (from the input
\* alone when nothing is saved or no thread id is given); the state is
\* saved under the thread id when the run reaches terminal and at no other
\* moment, and saving for one thread leaves every other thread's saved
\* state as it was, so a run on another thread starts with none of these
\* messages.
CheckpointPerThread ==
    /\ [][\A i \in ChatInputs, t \in ThreadIds :
            appInvoke(i, t) =>
                /\ run'.steps = 0 /\ run'.calls = 0
                /\ run'.state.messages =
                      (IF t # "none" /\ MapHas(checkpoints, t)
                       THEN MapGet(checkpoints, t).messages ELSE <<>>) \o i.messages]_vars
    /\ [][(run.status = "running" /\ run'.status = "done") =>
            IF run.thread = "none" THEN checkpoints' = checkpoints
            ELSE /\ MapGet(checkpoints', run.thread) = run.state
                 /\ KeySet(checkpoints') = KeySet(checkpoints) \cup {run.thread}
                 /\ \A t \in KeySet(checkpoints) \ {run.thread} :
                       MapGet(checkpoints', t) = MapGet(checkpoints, t)]_vars
    /\ [][checkpoints' # checkpoints =>
            (run.status = "running" /\ run'.status = "done")]_vars

\* the second run on thread 42 started from the first run's two messages
\* while thread agent1 holds a conversation of its own
SecondInvokeResumed ==
    /\ run.thread = "42"
    /\ run.status = "done"
    /\ Len(run.initial.messages) = 3
    /\ Len(run.state.messages) = 4
    /\ MapHas(checkpoints, "agent1")
    /\ MapGet(checkpoints, "agent1").messages[1] # run.state.messages[1]
    /\ Len(MapGet(checkpoints, "agent1").messages) = 2

\* C22: cancellation takes effect only between steps: a run becomes
\* cancelled only at the head of the executor's loop, after a signal, with
\* its state, step count and node-call count as the last completed step
\* left them; a step that ran a node body always completes its merge; and
\* a cancelled run holds the messages it started from followed by one
\* message per completed node call.
CancelBetweenSteps ==
    /\ [][(run'.status = "CancelledError" /\ run.status # "CancelledError") =>
            /\ run.status = "running"
            /\ run.pc = "node"
            /\ run.cancel
            /\ run'.state = run.state
            /\ run'.steps = run.steps
            /\ run'.calls = run.calls]_vars
    /\ [][run'.calls > run.calls =>
            /\ run'.status = "running"
            /\ Len(run'.state.messages) = Len(run.state.messages) + 1]_vars
    /\ [](run.status = "CancelledError" =>
            /\ IsPrefix(run.initial.messages, run.state.messages)
            /\ Len(run.state.messages) = Len(run.initial.messages) + run.calls
            /\ run.steps = run.calls)

\* a run over two nodes was cancelled after its first step
CancelledAfterFirstStep ==
    /\ run.status = "CancelledError"
    /\ Len(run.g.nodes) = 2
    /\ run.calls = 1
    /\ run.cur = "model2"
    /\ Len(run.state.messages) = 2
    /\ IsAIMessage(run.state.messages[2])

\* the partial update the current node hands to the reducer when its
\* capability call has outcome o
PartialOf(r, ps, an, o) ==
    LET body == MapGet(r.g.nodes, r.cur)
        out == InvokeNode(r.cur, body, r.state, ps, an, o)
    IN  IF out.threw THEN [messages |-> <<ErrorMessage(body)>>] ELSE out.partial

\* C23: merging a partial update overwrites every non-messages channel
\* the update holds and carries over every channel it lacks, at each node
\* step and when the input of an invoke meets a saved state; the language
\* channel of the chatbot, which no node writes, keeps through every step
\* the value the run started with.
ChannelsOverwrittenOrCarried ==
    /\ [][(run.status = "running" /\ run.pc = "node" /\ run'.calls = run.calls + 1) =>
            \E o \in Outcomes(MapGet(run.g.nodes, run.cur), run.cur) :
                LET p == PartialOf(run, plugins, analyzer, o)
                IN  /\ DOMAIN run'.state = (DOMAIN run.state) \cup (DOMAIN p)
                    /\ \A c \in (DOMAIN p) \ {"messages"} : run'.state[c] = p[c]
                    /\ \A c \in (DOMAIN run.state) \ (DOMAIN p) :
                          run'.state[c] = run.state[c]]_vars
    /\ [][\A i \in ChatInputs, t \in ThreadIds :
            appInvoke(i, t) => run'.state.language = i.language]_vars
    /\ [](run.g.name = "chat" => run.state.language = run.initial.language)

\* the second run on a thread replaced the language saved by the first
\* and kept the new value through its model step
LanguageReplacedAndKept ==
    /\ run.g.name = "chat"
    /\ run.status = "done"
    /\ run.calls = 1
    /\ run.state.messages[1] = HumanMessage(<<"hi">>)
    /\ Len(run.state.messages) = 4
    /\ run.state.language = "French"
    /\ MapGet(checkpoints, run.thread).language = "French"

\* C24: node functions return only the delta: at every node step of every
\* workflow the messages the node returns contain none of the messages
\* already in the run state, and so the message the run started from
\* stands in the messages channel once.
NodesReturnDeltaOnly ==
    /\ [][(run.status = "running" /\ run.pc = "node" /\ run'.calls = run.calls + 1) =>
            \E o \in Outcomes(MapGet(run.g.nodes, run.cur), run.cur) :
                LET p == PartialOf(run, plugins, analyzer, o)
                IN  /\ run'.state = merge(run.state, p)
                    /\ "messages" \in DOMAIN p =>
                          \A i \in 1..Len(p.messages) :
                              p.messages[i] \notin SeqToSet(run.state.messages)]_vars
    /\ [](run.status # "idle" =>
            Cardinality({i \in 1..Len(run.state.messages) :
                            run.state.messages[i] = run.initial.messages[1]}) = 1)

\* C25: addNode(name, fn) fails with DuplicateNodeError exactly when name
\* is already a node of the graph being built, leaving the node table as
\* it was; otherwise it adds the node at the end of the table. A node
\* table built without an error holds each name once and is the node table
\* of the compiled plugin graph.
AddNodeRejectsDuplicate ==
    /\ [][workflowAddNode =>
            LET toolNodesToAdd == getEnabledToolNodes(probe.ps, ToolNodesOf(probe.ps))
                name == IF probe.added = 0 THEN "agent"
                        ELSE toolNodesToAdd[probe.added].k
            IN  IF name \in KeySet(probe.workflow.nodes)
                THEN /\ probe'.workflow.err = "DuplicateNodeError"
                     /\ probe'.workflow.nodes = probe.workflow.nodes
                ELSE /\ probe'.workflow.err = "none"
                     /\ Len(probe'.workflow.nodes) = Len(probe.workflow.nodes) + 1
                     /\ SubSeq(probe'.workflow.nodes, 1, Len(probe.workflow.nodes)) =
                           probe.workflow.nodes
                     /\ Last(probe'.workflow.nodes).k = name]_vars
    /\ [](probe.workflow.err = "none" =>
            /\ Cardinality(KeySet(probe.workflow.nodes)) = Len(probe.workflow.nodes)
            /\ IsPrefix(probe.workflow.nodes,
                        buildGraph(probe.ps, ToolNodesOf(probe.ps)).nodes))

\* an enabled plugin registered under the name of the agent node made the
\* second addNode call of buildGraph fail
PluginNamedAgentRejected ==
    /\ probe.workflow.err = "DuplicateNodeError"
    /\ probe.added = 3
    /\ MapKeys(probe.ps) = <<"translate", "agent">>
    /\ MapKeys(probe.workflow.nodes) = <<"agent", "translate">>

\* C26: an invoke over a chain start -> n1 -> ... -> nk -> terminal whose
\* nodes each return one message calls n1, ..., nk in this order, each call
\* appending exactly its message, and returns the initial messages followed
\* by the k new messages and nothing else; when the single node answers
\* human(hi) with "You said: hi", the result is exactly these two messages.
ChainReturnsInitialThenNew ==
    /\ [][run'.calls = run.calls + 1 =>
            /\ run.cur = ChainNodes[run.calls + 1]
            /\ Len(run'.state.messages) = Len(run.state.messages) + 1
            /\ IsPrefix(run.state.messages, run'.state.messages)
            /\ IsAIMessage(Last(run'.state.messages))]_vars
    /\ [](run.status = "done" =>
            /\ run.calls = Len(run.g.nodes)
            /\ Len(run.state.messages) = Len(run.initial.messages) + Len(run.g.nodes)
            /\ IsPrefix(run.initial.messages, run.state.messages)
            /\ \A j \in 1..Len(run.g.nodes) :
                  IsAIMessage(run.state.messages[Len(run.initial.messages) + j]))
    /\ []((/\ run.status = "done"
            /\ Len(run.g.nodes) = 1
            /\ run.initial.messages = <<HumanMessage(<<"hi">>)>>
            /\ Last(run.state.messages) = AIMessage(<<"You said: hi">>)) =>
              run.state.messages =
                  <<HumanMessage(<<"hi">>), AIMessage(<<"You said: hi">>)>>)

\* a chain of two nodes returned the input followed by the two answers,
\* the first node's first
ChainOfTwoReturned ==
    /\ run.status = "done"
    /\ Len(run.g.nodes) = 2
    /\ run.state.messages =
           <<HumanMessage(<<"hi">>), AIMessage(<<"You said: hi">>),
             AIMessage(<<"text">>)>>

\* C27: the terminal check comes before the limit check: a run standing
\* at the terminal marker returns its state, also when its step count has
\* reached the recursion limit (unless the caller cancelled it), and a run
\* that fails with RecursionLimitExceeded stands at a node, not at the
\* terminal marker.
TerminalBeforeLimit ==
    /\ [][(/\ run.status = "running" /\ run.pc = "node" /\ run.cur = END
            /\ run' # run /\ ~run'.cancel) =>
              (run'.status = "done" /\ run'.state = run.state)]_vars
    /\ [](run.status = "RecursionLimitExceeded" =>
            /\ run.cur # END
            /\ run.steps = run.g.limit
            /\ run.calls = run.g.limit)

\* the second of two node calls, the last the limit allows, led to the
\* terminal marker and the run returned
ReturnedAtLimit ==
    /\ run.status = "done"
    /\ run.g.limit = 2
    /\ run.calls = 2
    /\ run.steps = 2
    /\ run.last = "model2"
    /\ Len(run.state.messages) = 3

\* the position of the latest assistant message that carries tool calls
LastRequest(msgs) ==
    CHOOSE a \in 1..Len(msgs) :
        /\ IsAIMessage(msgs[a]) /\ Len(msgs[a].calls) > 0
        /\ \A b \in (a + 1)..Len(msgs) :
              ~(IsAIMessage(msgs[b]) /\ Len(msgs[b].calls) > 0)

\* the tool-role messages after position a that answer call c
AnswersTo(msgs, a, c) ==
    {j \in (a + 1)..Len(msgs) : IsToolMessage(msgs[j]) /\ msgs[j].callId = c}

\* C28: each time control returns from a tool node to the agent, every
\* tool call of the preceding assistant message has exactly one tool-role
\* message whose toolCallId is that call's id, also when the message
\* carries several calls naming different tools.
EveryToolCallAnswered ==
    [][(/\ run.g.name = "plugin" /\ run.status = "running" /\ run.pc = "route"
        /\ run.cur # "agent" /\ run'.cur = "agent" /\ run'.pc = "node") =>
          LET msgs == run.state.messages
              a == LastRequest(msgs)
          IN  \A c \in 1..Len(msgs[a].calls) :
                  Cardinality(AnswersTo(msgs, a, c)) = 1]_vars

\* C29: for every enabled plugin, a tool call that names the plugin's tool
\* by the tool's own name is routed to that plugin's tool node, also when
\* the plugin's registry name differs from the name of its tool.
ToolNameCallRoutesToPluginNode ==
    probe.applied =>
        LET lastMessage == Last(probe.messages)
            enabled == getEnabledPlugins(probe.ps)
        IN  \A i \in 1..Len(enabled) :
                (Len(lastMessage.calls) > 0 /\ lastMessage.calls[1] = enabled[i].tool)
                    => probe.key = enabled[i].name

\* C30: whatever register, unregister and setEnabled calls follow the
\* build of the plugin agent's graph, every key routeFromAgent returns in
\* a run of that graph is a key of the graph's conditional target map, and
\* no run of the graph fails on routing.
RouterKeysStayInTargetMap ==
    /\ [][(/\ run.g.name = "plugin" /\ run.status = "running"
            /\ run.pc = "route" /\ run.cur = "agent" /\ run' # run) =>
              /\ routeFromAgent(run.state.messages, plugins) \in
                     {e[1] : e \in UNION {b.ends : b \in run.g.branches}}
              /\ run'.status = "running"]_vars
    /\ [](run.g.name = "plugin" => run.status # "RoutingKeyError")

EnabledOrder(ps) ==
    LET on == getEnabledPlugins(ps) IN [i \in 1..Len(on) |-> on[i].name]

\* C32: register(name, ...) on a name that is registered but disabled leaves
\* the plugin enabled and at its original position in the order returned by
\* enabledTools(); a name that is not registered (never, or unregistered
\* before) goes to the end of that order.
RegisterKeepsPositionOrAppends ==
    [][\A n \in PluginNames :
          (\E t \in Capabilities(n), d \in Descriptions(n) : registerPlugin(n, t, d)) =>
              /\ MapHas(plugins', n) /\ MapGet(plugins', n).enabled
              /\ IF MapHas(plugins, n)
                 THEN /\ MapKeys(plugins') = MapKeys(plugins)
                      /\ EnabledOrder(plugins') =
                             MapKeys(SelectSeq(plugins,
                                 LAMBDA e : e.k = n \/ e.v.enabled))
                 ELSE /\ MapKeys(plugins') = Append(MapKeys(plugins), n)
                      /\ EnabledOrder(plugins') = Append(EnabledOrder(plugins), n)]_vars

\* the graph was built from <<translate, weather>>; since then translate was
\* unregistered and registered again, and weather registered again
ReRegisteredAfterBuild ==
    /\ graph.built
    /\ MapKeys(graph.nodes) = <<"agent", "translate", "weather">>
    /\ MapGet(graph.nodes, "weather").tools = <<ToolOf("weather")>>
    /\ MapKeys(plugins) = <<"weather", "translate">>
    /\ MapGet(plugins, "weather").tool = AltToolOf("weather")
    /\ EnabledOrder(plugins) = <<"weather", "translate">>

\* C33: buildGraph succeeds for every registry state reachable by register,
\* unregister and setEnabled: none of its addNode calls (the agent node, then
\* one node per enabled plugin) fails on a duplicate or reserved node name.
BuildGraphNeverFails ==
    probe.workflow.err = "none"

\* the number of invocations of node n in a trace
Visits(trace, n) == Cardinality({i \in 1..Len(trace) : trace[i] = n})

\* the invocations of a run that precede its first call of node n
Before(trace, n) ==
    LET at == {i \in 1..Len(trace) : trace[i] = n}
    IN  IF at = {} THEN trace
        ELSE SubSeq(trace, 1, (CHOOSE i \in at : \A j \in at : i <= j) - 1)

\* C34: in the debate graph the moderator routes to the summarizer whenever
\* its latest message contains CONCLUDE_DEBATE or the run state holds at
\* least 8 assistant messages; so in a run started from a single human
\* message the creative, pragmatic and critic nodes are each invoked at most
\* twice before the first summarizer call.
ModeratorEndsDebateByTurnCount ==
    run.g.name = "debate" =>
        \* the routing step that followed a moderator call
        /\ run.status \notin {"RoutingKeyError", "NoOutgoingEdgeError"}
        /\ (/\ run.pc = "node"
            /\ run.last = ROLES.MODERATOR
            /\ \/ Includes(Last(run.state.messages).content, "CONCLUDE_DEBATE")
               \/ CountAI(run.state.messages) >= 8) =>
               run.cur = ROLES.SUMMARIZER
        /\ \A n \in {ROLES.CREATIVE, ROLES.PRAGMATIC, ROLES.CRITIC} :
               Visits(Before(run.trace, ROLES.SUMMARIZER), n) <= 2

SummarizerCalledAfterTwoRounds ==
    /\ run.g.name = "debate"
    /\ Len(run.trace) = 10
    /\ run.trace[10] = ROLES.SUMMARIZER
    /\ \A n \in {ROLES.CREATIVE, ROLES.PRAGMATIC, ROLES.CRITIC} :
           Visits(Before(run.trace, ROLES.SUMMARIZER), n) = 2
    /\ \A i \in 1..Len(run.state.messages) :
           ~Includes(run.state.messages[i].content, "CONCLUDE_DEBATE")

\* C35: in the debate graph, once the summarizer node has run in a run, the
\* creative, pragmatic and critic nodes are never invoked again in that run:
\* what follows the first summarizer call are calls of the moderator and the
\* summarizer only.
DebatersSilentAfterSummarizer ==
    run.g.name = "debate" =>
        \A i, j \in 1..Len(run.trace) :
            (i < j /\ run.trace[i] = ROLES.SUMMARIZER) =>
                run.trace[j] \in {ROLES.MODERATOR, ROLES.SUMMARIZER}

\* C36: in the multi-agent graph a coordinator reply of RESEARCHER or
\* CALCULATOR, written as the coordinator's system prompt instructs, routes
\* the run to the researcher or the calculator node respectively, not back
\* to the coordinator.
CoordinatorReplyRoutesToSpecialist ==
    [][(/\ run.g.name = "orchestrator"
        /\ run.status = "running"
        /\ run.pc = "route"
        /\ run.cur = "coordinator"
        /\ run' # run) =>
          LET reply == Last(run.state.messages)
          IN  /\ (IsAIMessage(reply) /\ reply.content = <<"RESEARCHER">>) =>
                     run'.cur = "researcher"
              /\ (IsAIMessage(reply) /\ reply.content = <<"CALCULATOR">>) =>
                     run'.cur = "calculator"]_vars

\* C37: in the multi-agent graph a run reaches the terminal marker only
\* from the coordinator node and only when the coordinator's latest message
\* contains FINAL_ANSWER:; a run ends in no other way than at the terminal
\* marker or by the recursion limit, and a researcher or calculator step
\* without tool calls always hands control back to the coordinator.
TerminalOnlyByFinalAnswer ==
    /\ [](run.g.name = "orchestrator" =>
            /\ run.status \in {"running", "done", "RecursionLimitExceeded"}
            /\ (run.status = "RecursionLimitExceeded" =>
                    run.steps = run.g.limit /\ run.cur # END)
            /\ (run.cur = END =>
                    /\ run.last = "coordinator"
                    /\ IsAIMessage(Last(run.state.messages))
                    /\ Includes(Last(run.state.messages).content, "FINAL_ANSWER:")))
    /\ [][(/\ run.g.name = "orchestrator"
            /\ run.status = "running"
            /\ run.pc = "route"
            /\ run.cur \in {"researcher", "calculator"}
            /\ Last(run.state.messages).calls = <<>>
            /\ run' # run) =>
              /\ run'.status = "running"
              /\ run'.cur = "coordinator"]_vars

FinalAnswerAfterHandBack ==
    /\ run.g.name = "orchestrator"
    /\ run.status = "done"
    /\ run.trace = <<"coordinator", "researcher", "researchTools", "researcher",
                     "coordinator">>
    /\ Includes(Last(run.state.messages).content, "FINAL_ANSWER:")

\* initializeAnalysis loaded a file in this run
FileLoaded(r) ==
    \E i \in 1..Len(r.state.messages) :
        Includes(r.state.messages[i].content, "I've loaded ")

\* C38: in the file-analyzer graph, whenever initializeAnalysis does not load
\* a file (no human message, no file path found, empty file, or read error),
\* the run goes from initialize straight to terminal: initialize is the only
\* node invoked, and understand, generate_insights and answer_questions
\* never are.
NoFileLoadedEndsRun ==
    (run.g.name = "fileAnalyzer" /\ run.trace # <<>> /\ ~FileLoaded(run)) =>
        /\ run.trace = <<ANALYZER_STATES.INITIALIZE>>
        /\ run.pc = "node" => run.cur = END

\* run states a router may be handed: 0 or 8 earlier assistant messages,
\* then a latest message of any role and wording
RouterSamples ==
    {pre \o <<last>> :
        pre \in {<<HumanMessage(<<"question">>)>>,
                 <<HumanMessage(<<"question">>)>>
                     \o [i \in 1..8 |-> AIMessage(<<"text">>)]},
        last \in {HumanMessage(<<"question">>), ToolMessage(<<"result">>, 1),
                  AIToolCalls(<<"calculator">>), AIToolCalls(<<"ghost">>)}
                 \cup {AIMessage(<<t>>) :
                          t \in CoordinatorReplies \cup
                               {"text", "error", "CONCLUDE_DEBATE", "end",
                                "Error loading", "No file path provided", END}}}

\* C39: in the multi-agent, debate and file-analyzer graphs every value a
\* router function can return, for every run state, is a key of that
\* conditional edge's target map, and every node has an outgoing edge or
\* conditional edge: no run of these graphs fails with RoutingKeyError or
\* NoOutgoingEdgeError.
FixedGraphsRouteWithinTargetMaps ==
    run.g.name \in {"orchestrator", "debate", "fileAnalyzer"} =>
        /\ run.status \notin {"RoutingKeyError", "NoOutgoingEdgeError"}
        /\ (run.status = "running" /\ run.pc = "route") => ~KeyMissing(run, plugins)
        /\ \A n \in KeySet(run.g.nodes) :
               \/ \E e \in run.g.edges : e[1] = n
               \/ \E b \in run.g.branches : b.src = n
        /\ run.calls = 0 =>
               \A b \in run.g.branches, ms \in RouterSamples :
                   RouteFn(b.route, [messages |-> ms], plugins)
                       \in {e[1] : e \in b.ends}

DebateEndedByKeyEnd ==
    /\ run.g.name = "debate"
    /\ run.status = "done"
    /\ run.key = "end"
    /\ SeqToSet(run.trace) = KeySet(debateGraph.nodes)
====
